---- MODULE Spec2Model ----
(***************************************************************************)
(* Connection pool manager of mongo-manager (MongoClientManager) together  *)
(* with the connection controllers that invalidate its cache.              *)
(*                                                                         *)
(* Node.js runs the handlers on one thread.  A handler runs without        *)
(* interruption until it awaits driver I/O (client.connect(),              *)
(* client.close()); the I/O completes in a later event-loop turn, and the  *)
(* rest of the handler up to its next I/O await runs in that turn.  Each   *)
(* action below is one such turn.  An await of an async function that      *)
(* returns without I/O only costs microtask hops in the same turn and is   *)
(* not an interleaving point.                                              *)
(*                                                                         *)
(* Time is counted in minutes (Date.now() in the code is milliseconds).    *)
(***************************************************************************)
EXTENDS Integers, Sequences, FiniteSets, TLC

\* ---------------------------------------------------------------- bounds
MaxCalls == 3          \* getClient invocations in one run with sweeps or a shutdown
PoolCalls == 2         \* getClient invocations in one run with edits of the list
MaxReqs == 1           \* updateConnection / deleteConnection requests in one run
MaxTime == 6           \* the clock stops advancing here
MaxSweepPending == 1   \* sweep-started closes pending on one cached client
MaxDepth == 2          \* nesting of the JSON values that are converted

\* ------------------------------------------------------- program constants
IdleTimeout == 5       \* this.idleTimeout = 5 * 60 * 1000 ms, in minutes

Ids == {"c1", "c2"}    \* connection ids present in connections.json at start
Calls == 1..MaxCalls   \* the call g creates at most one driver client: handle g
Reqs == 1..MaxReqs
NoHandle == 0
NoId == "none"
InitialVersion == 1

VARIABLES
    records,       \* connections.json: id -> edit generation of the record, 0 = no record
    clients,       \* this.clients, a Map in insertion order: Seq of [id, client, lastUsed]
    hstate,        \* driver client created by call g: none/connecting/connected/failed/closing/closed
    calls,         \* getClient invocations: [pc, id, ver, res, ret, closing, afterFailure]
    reqs,          \* controller requests: [pc, kind, id, loaded, closing, res]
    sweepClosers,  \* closeConnection calls started by the idle sweep and not finished
    sig,           \* SIGINT/SIGTERM handler: [pc, closing, id, atSignal]
    now,           \* Date.now()
    test,          \* the testConnection invocation: [pc, uri, client, closeCalls, version, err, result]
    shell,         \* the last executeShell invocation: its inputs, driver calls and response
    codec,         \* the last Extended JSON conversion: [pc, by, doc, decoded, encoded]
    created,       \* ids whose createConnection request answered 201
    built,         \* the last connection record turned into a URI, by both builders
    http,          \* the last request through csrfLightMiddleware and its verdict
    clean,         \* the last value through sanitizeString / sanitizeObject
    store,         \* the app store of the frontend
    access,        \* access-control settings file and the last updateAccessSettings request
    rest,          \* the last REST dropDatabase request
    auth           \* sessions, users and the clock of config/auth.js

\* the state of the other modules of the backend and of the frontend
more == <<created, built, http, clean, store, access, rest, auth>>

\* the state outside the connection pool and the connection list
ext == <<test, shell, codec, more>>

vars == <<records, clients, hstate, calls, reqs, sweepClosers, sig, now, test, shell, codec,
          created, built, http, clean, store, access, rest, auth>>

\* ------------------------------------------------------------ the Map
Has(m, id) == \E i \in 1..Len(m) : m[i].id = id

Get(m, id) == m[CHOOSE i \in 1..Len(m) : m[i].id = id]

\* Map.prototype.set: an existing key keeps its position, a new key is appended
Set(m, id, client, t) ==
    IF Has(m, id)
    THEN [i \in 1..Len(m) |->
            IF m[i].id = id THEN [id |-> id, client |-> client, lastUsed |-> t] ELSE m[i]]
    ELSE Append(m, [id |-> id, client |-> client, lastUsed |-> t])

Delete(m, id) == SelectSeq(m, LAMBDA e : e.id # id)

\* a lookup that leaves lastUsed as it was
Touch_NoRefresh(m, id, t) == m

\* cached.lastUsed = Date.now()
Touch(m, id, t) ==
    [i \in 1..Len(m) |-> IF m[i].id = id THEN [m[i] EXCEPT !.lastUsed = t] ELSE m[i]]

Cached(m) == {m[i].client : i \in 1..Len(m)}

\* ------------------------------------------------- loadConnections / save
loadConnections == records

saveConnections(list, ok) == IF ok THEN list ELSE records

\* ------------------------------------------------------ closeConnection
\* the part of closeConnection up to `await client.close()`
CloseStarted(hs, m, id) ==
    IF Has(m, id)
    THEN [hs EXCEPT ![Get(m, id).client] = IF @ = "closed" THEN "closed" ELSE "closing"]
    ELSE hs

\* handle whose close() the caller awaits
CloseTarget(m, id) == IF Has(m, id) THEN Get(m, id).client ELSE NoHandle

\* the entry is never removed
CloseFinished_KeepEntry(m, id, ok) == m

\* the delete placed inside the try block: skipped when close() throws
CloseFinished_OnlyIfClosed(m, id, ok) == IF ok THEN Delete(m, id) ELSE m

\* the part of closeConnection after `await client.close()`; the catch
\* swallows a close error, the delete runs in both cases
CloseFinished(m, id, ok) == Delete(m, id)

\* the driver client after close() on it settled: a close that threw leaves
\* the client as it was, with its close started
Closed(hs, h, ok) == IF ok THEN [hs EXCEPT ![h] = "closed"] ELSE hs

Running == sig.pc # "exited"

\* ------------------------------------ testConnection, executeShell, codec
\* no error caught yet
NoError == [code |-> 0, codeName |-> "none", message |-> "none"]

NoResult == [success |-> FALSE, message |-> << >>, version |-> "none"]

\* no testConnection invocation yet
TestIdle == [pc |-> "idle", uri |-> << >>, client |-> "none", closeCalls |-> 0,
             version |-> "none", err |-> NoError, result |-> NoResult]

\* a command text: `db.<coll>.<method>(` followed by body when coll # "",
\* else the literal method followed by body; padded = surrounded by whitespace
EmptyCommand == [padded |-> FALSE, coll |-> "", method |-> "", body |-> << >>]

NoResponse == [status |-> 0, kind |-> "none", what |-> "none", database |-> ""]

\* no executeShell invocation yet
ShellIdle == [pc |-> "idle", cmd |-> EmptyCommand, database |-> "", pool |-> "none",
              driverOk |-> TRUE, sent |-> 0, res |-> NoResponse, ops |-> << >>,
              passed |-> FALSE, prevUse |-> ""]

\* a JSON value or a value of the driver: t is its type, s its text (a
\* sequence of characters or lexemes), kids its members [k, v] in order
Val(t, s, kids) == [t |-> t, s |-> s, kids |-> kids]

JNull == Val("null", << >>, << >>)

\* no conversion yet
CodecIdle == [pc |-> "idle", by |-> "none", doc |-> JNull, decoded |-> JNull, encoded |-> JNull]

\* ------------------------------------------------ the other modules, at rest
\* a connection record of connections.json, texts as sequences of characters
NoRecord == [uri |-> << >>, host |-> "", port |-> "", username |-> << >>, password |-> << >>,
             authDatabase |-> ""]

\* no record turned into a URI yet
UriIdle == [pc |-> "idle", conn |-> NoRecord, pool |-> << >>, tool |-> << >>]

\* an absent header (undefined, or the empty text, which is as falsy)
NoHeader == << >>

NoRequest == [method |-> "GET", path |-> "/health", origin |-> NoHeader, referer |-> NoHeader]

\* no request has gone through csrfLightMiddleware yet
HttpIdle == [pc |-> "idle", req |-> NoRequest, env |-> NoHeader, status |-> 0, error |-> << >>]

\* nothing sanitized yet
CleanIdle == [pc |-> "idle", by |-> "none", arg |-> JNull, out |-> JNull]

\* documentsPagination of an empty store
FirstPage == [page |-> 1, pageSize |-> 20, totalCount |-> 0, totalPages |-> 0]

\* the app store as defineStore sets it up; loading holds the kinds whose
\* flag is true, fetching the parameters of the documents request in flight,
\* last names the selection action that ran last
StoreInit ==
    [activeConnectionId |-> "null", databases |-> << >>, selectedDatabase |-> "null",
     collections |-> << >>, selectedCollection |-> "null", collectionStats |-> "null",
     documents |-> << >>, documentsPagination |-> FirstPage, documentsFilter |-> "{}",
     documentsSort |-> "{}", indexes |-> << >>, loading |-> {}, fetching |-> FirstPage,
     error |-> "null", last |-> "none"]

\* settings.json as loadSettings creates it
DefaultSettings == [mode |-> "disabled", whitelist |-> << >>, blacklist |-> << >>]

\* the settings file, and the last updateAccessSettings request: the client
\* IP it came from and the status it was answered with
AccessInit == [pc |-> "idle", settings |-> DefaultSettings, ip |-> << >>, status |-> 0]

\* no REST dropDatabase request yet
RestIdle == [pc |-> "idle", dbName |-> "", ops |-> << >>, status |-> 0]

\* a token without a session in activeSessions
NoSession == [userId |-> "none", username |-> "none", role |-> "none", expiresAt |-> 0]

\* config/auth.js when the module is loaded: activeSessions is empty and
\* users.json does not exist yet. issued counts the tokens generateToken has
\* returned, revoked holds the tokens passed to logout or refused by
\* verifyToken, last is the last verifyToken call and its result.
AuthInit ==
    [file |-> FALSE, users |-> << >>, sessions |-> << >>, clock |-> 0, issued |-> 0,
     revoked |-> {}, last |-> [token |-> 0, session |-> NoSession]]

\* ---------------------------------------------------------------- Init
IdleCall == [pc |-> "idle", id |-> NoId, ver |-> 0, res |-> "none", ret |-> NoHandle,
             closing |-> NoHandle, afterFailure |-> FALSE]

IdleReq == [pc |-> "idle", kind |-> "none", id |-> NoId, loaded |-> [i \in Ids |-> 0],
            closing |-> NoHandle, res |-> "none"]

Init ==
    /\ records = [i \in Ids |-> InitialVersion]
    /\ clients = << >>
    /\ hstate = [g \in Calls |-> "none"]
    /\ calls = [g \in Calls |-> IdleCall]
    /\ reqs = [r \in Reqs |-> IdleReq]
    /\ sweepClosers = [p \in Ids \X Calls |-> 0]
    /\ sig = [pc |-> "run", closing |-> NoHandle, id |-> NoId, atSignal |-> {}]
    /\ now = 0
    /\ test = TestIdle
    /\ shell = ShellIdle
    /\ codec = CodecIdle
    /\ created = {}
    /\ built = UriIdle
    /\ http = HttpIdle
    /\ clean = CleanIdle
    /\ store = StoreInit
    /\ access = AccessInit
    /\ rest = RestIdle
    /\ auth = AuthInit

\* ---------------------------------------------------------- getClient
\* invocations take the call slots in order (slots are interchangeable)
NextCall(g) == calls[g].pc = "idle" /\ \A k \in Calls : k < g => calls[k].pc # "idle"

FailedBefore(id) == \E k \in Calls : calls[k].id = id /\ calls[k].res = "ConnectionFailed"

\* getClient(connectionId) up to its first I/O await
GetClient(g, id) ==
    /\ Running
    /\ NextCall(g)
    /\ LET connConfig == loadConnections[id]
           started == [calls[g] EXCEPT !.id = id, !.ver = connConfig,
                                       !.afterFailure = FailedBefore(id)]
       IN
       IF connConfig = 0
       THEN IF Has(clients, id)
            THEN /\ hstate' = CloseStarted(hstate, clients, id)
                 /\ calls' = [calls EXCEPT ![g] =
                        [started EXCEPT !.pc = "evict", !.closing = CloseTarget(clients, id)]]
                 /\ UNCHANGED clients
            ELSE /\ calls' = [calls EXCEPT ![g] =
                        [started EXCEPT !.pc = "done", !.res = "NotFound"]]
                 /\ UNCHANGED <<clients, hstate>>
       ELSE IF Has(clients, id)
            THEN /\ clients' = Touch(clients, id, now)
                 /\ calls' = [calls EXCEPT ![g] =
                        [started EXCEPT !.pc = "done", !.res = "client",
                                        !.ret = Get(clients, id).client]]
                 /\ UNCHANGED hstate
            ELSE /\ hstate' = [hstate EXCEPT ![g] = "connecting"]
                 /\ calls' = [calls EXCEPT ![g] = [started EXCEPT !.pc = "connect"]]
                 /\ UNCHANGED clients
    /\ UNCHANGED <<records, reqs, sweepClosers, sig, now, ext>>

\* `await this.closeConnection(connectionId)` returns, then the throw
GetClientEvicted(g, ok) ==
    /\ Running
    /\ calls[g].pc = "evict"
    /\ hstate' = Closed(hstate, calls[g].closing, ok)
    /\ clients' = CloseFinished(clients, calls[g].id, ok)
    /\ calls' = [calls EXCEPT ![g].pc = "done", ![g].res = "NotFound"]
    /\ UNCHANGED <<records, reqs, sweepClosers, sig, now, ext>>

\* `await client.connect()` resolves: cache the client and return it
ConnectOk(g) ==
    /\ Running
    /\ calls[g].pc = "connect"
    /\ hstate' = [hstate EXCEPT ![g] = "connected"]
    /\ clients' = Set(clients, calls[g].id, g, now)
    /\ calls' = [calls EXCEPT ![g].pc = "done", ![g].res = "client", ![g].ret = g]
    /\ UNCHANGED <<records, reqs, sweepClosers, sig, now, ext>>

\* the client is cached before the connect settled, and stays cached
ConnectFail_Caches(g) ==
    /\ Running
    /\ calls[g].pc = "connect"
    /\ hstate' = [hstate EXCEPT ![g] = "failed"]
    /\ clients' = Set(clients, calls[g].id, g, now)
    /\ calls' = [calls EXCEPT ![g].pc = "done", ![g].res = "ConnectionFailed"]
    /\ UNCHANGED <<records, reqs, sweepClosers, sig, now, ext>>

\* `await client.connect()` rejects: the catch rethrows a sanitized error
ConnectFail(g) ==
    /\ Running
    /\ calls[g].pc = "connect"
    /\ hstate' = [hstate EXCEPT ![g] = "failed"]
    /\ calls' = [calls EXCEPT ![g].pc = "done", ![g].res = "ConnectionFailed"]
    /\ UNCHANGED <<records, clients, reqs, sweepClosers, sig, now, ext>>

\* ------------------------------------------- updateConnection / deleteConnection
NextReq(r) == reqs[r].pc = "idle" /\ \A k \in Reqs : k < r => reqs[k].pc # "idle"

\* generation written by request r: every edit produces a record of its own
EditedVersion(r) == InitialVersion + r

\* connections[index] = {...} of updateConnection, connections.splice(index, 1)
\* of deleteConnection, applied to the list the request loaded
Modified(kind, list, id, r) ==
    IF kind = "update" THEN [list EXCEPT ![id] = EditedVersion(r)]
    ELSE [list EXCEPT ![id] = 0]

\* the handler from saveConnections(connections) to its response
Respond(req, r, saveOk) ==
    [req EXCEPT !.pc = "done", !.res = IF saveOk THEN "ok" ELSE "SaveFailed"]

\* updateConnection / deleteConnection up to the first I/O await
ConnectionRequest(r, kind, id, saveOk) ==
    /\ Running
    /\ NextReq(r)
    /\ LET connections == loadConnections
           started == [reqs[r] EXCEPT !.kind = kind, !.id = id, !.loaded = connections]
       IN
       IF connections[id] = 0
       THEN /\ reqs' = [reqs EXCEPT ![r] = [started EXCEPT !.pc = "done", !.res = "NotFound"]]
            /\ UNCHANGED <<records, hstate>>
       ELSE IF Has(clients, id)
            THEN /\ hstate' = CloseStarted(hstate, clients, id)
                 /\ reqs' = [reqs EXCEPT ![r] =
                        [started EXCEPT !.pc = "closing", !.closing = CloseTarget(clients, id)]]
                 /\ UNCHANGED records
            ELSE /\ records' = saveConnections(Modified(kind, connections, id, r), saveOk)
                 /\ reqs' = [reqs EXCEPT ![r] = Respond(started, r, saveOk)]
                 /\ UNCHANGED hstate
    /\ UNCHANGED <<clients, calls, sweepClosers, sig, now, ext>>

UpdateConnection(r, id, saveOk) == ConnectionRequest(r, "update", id, saveOk)

DeleteConnection(r, id, saveOk) == ConnectionRequest(r, "delete", id, saveOk)

\* `await mongoClientManager.closeConnection(connectionId)` returns; the
\* handler edits the list it loaded before the await and saves it
RequestClosed(r, closeOk, saveOk) ==
    /\ Running
    /\ reqs[r].pc = "closing"
    /\ hstate' = Closed(hstate, reqs[r].closing, closeOk)
    /\ clients' = CloseFinished(clients, reqs[r].id, closeOk)
    /\ records' = saveConnections(Modified(reqs[r].kind, reqs[r].loaded, reqs[r].id, r), saveOk)
    /\ reqs' = [reqs EXCEPT ![r] = Respond(reqs[r], r, saveOk)]
    /\ UNCHANGED <<calls, sweepClosers, sig, now, ext>>

\* ------------------------------------------------------------ idle sweep
\* now - data.lastUsed > this.idleTimeout
Idle(e, t) == t - e.lastUsed > IdleTimeout

IdleEntries(m, t) == {i \in 1..Len(m) : Idle(m[i], t)}

\* one run of the setInterval callback: closeConnection is called, not
\* awaited, for every idle entry, so every close starts in this turn
CleanupTick ==
    /\ Running
    /\ LET idle == IdleEntries(clients, now)
           pairs == {<<clients[i].id, clients[i].client>> : i \in idle}
       IN
       /\ idle # {}
       /\ \A p \in pairs : sweepClosers[p] < MaxSweepPending
       /\ hstate' = [g \in Calls |->
                        IF \E i \in idle : clients[i].client = g
                        THEN (IF hstate[g] = "closed" THEN "closed" ELSE "closing")
                        ELSE hstate[g]]
       /\ sweepClosers' = [p \in Ids \X Calls |->
                        IF p \in pairs THEN sweepClosers[p] + 1 ELSE sweepClosers[p]]
    /\ UNCHANGED <<records, clients, calls, reqs, sig, now, ext>>

\* a close started by the sweep finishes
SweepClosed(id, h, ok) ==
    /\ Running
    /\ sweepClosers[<<id, h>>] > 0
    /\ sweepClosers' = [sweepClosers EXCEPT ![<<id, h>>] = @ - 1]
    /\ hstate' = Closed(hstate, h, ok)
    /\ clients' = CloseFinished(clients, id, ok)
    /\ UNCHANGED <<records, calls, reqs, sig, now, ext>>

\* ------------------------------------------------- SIGINT / SIGTERM handler
\* closeAllConnections from the point where its iterator asks for the next
\* entry: every entry before the iterator's position has been deleted, so
\* the next entry is the first one of the Map; none left: process.exit(0)
CloseAllFrom(m, hs, atSignal) ==
    IF m = << >>
    THEN [sig |-> [pc |-> "exited", closing |-> NoHandle, id |-> NoId, atSignal |-> atSignal],
          hs |-> hs]
    ELSE [sig |-> [pc |-> "closing", closing |-> m[1].client, id |-> m[1].id,
                   atSignal |-> atSignal],
          hs |-> CloseStarted(hs, m, m[1].id)]

\* the signal arrives
Signal ==
    /\ sig.pc = "run"
    /\ LET step == CloseAllFrom(clients, hstate, Cached(clients))
       IN /\ sig' = step.sig
          /\ hstate' = step.hs
    /\ UNCHANGED <<records, clients, calls, reqs, sweepClosers, now, ext>>

\* `await this.closeConnection(connectionId)` of closeAllConnections returns
SignalClosed(ok) ==
    /\ sig.pc = "closing"
    /\ LET m == CloseFinished(clients, sig.id, ok)
           step == CloseAllFrom(m, Closed(hstate, sig.closing, ok), sig.atSignal)
       IN /\ clients' = m
          /\ sig' = step.sig
          /\ hstate' = step.hs
    /\ UNCHANGED <<records, calls, reqs, sweepClosers, now, ext>>

\* ------------------------------------------------------------- the clock
TimePasses ==
    /\ Running
    /\ now < MaxTime
    /\ now' = now + 1
    /\ UNCHANGED <<records, clients, hstate, calls, reqs, sweepClosers, sig, ext>>

\* lookups racing with edits of the connection list
Next ==
    \/ \E g \in 1..PoolCalls, id \in Ids : GetClient(g, id)
    \/ \E g \in Calls, ok \in BOOLEAN : GetClientEvicted(g, ok)
    \/ \E g \in Calls : ConnectOk(g)
    \/ \E g \in Calls : ConnectFail(g)
    \/ \E r \in Reqs, id \in Ids, saveOk \in BOOLEAN : UpdateConnection(r, id, saveOk)
    \/ \E r \in Reqs, id \in Ids, saveOk \in BOOLEAN : DeleteConnection(r, id, saveOk)
    \/ \E r \in Reqs, closeOk \in BOOLEAN, saveOk \in BOOLEAN : RequestClosed(r, closeOk, saveOk)

Spec == Init /\ [][Next]_vars

\* lookups while time passes and the idle sweep runs
NextSweep ==
    \/ \E g \in Calls, id \in Ids : GetClient(g, id)
    \/ \E g \in Calls : ConnectOk(g)
    \/ \E g \in Calls : ConnectFail(g)
    \/ TimePasses
    \/ CleanupTick
    \/ \E id \in Ids, h \in Calls, ok \in BOOLEAN : SweepClosed(id, h, ok)

SpecSweep == Init /\ [][NextSweep]_vars

\* the clock runs, the setInterval timer fires, and the driver settles every
\* close() it was asked for
SpecSweepLive ==
    /\ SpecSweep
    /\ WF_vars(TimePasses)
    /\ WF_vars(CleanupTick)
    /\ \A id \in Ids, h \in Calls : WF_vars(\E ok \in BOOLEAN : SweepClosed(id, h, ok))

\* lookups racing with a shutdown signal
NextShutdown ==
    \/ \E g \in Calls, id \in Ids : GetClient(g, id)
    \/ \E g \in Calls : ConnectOk(g)
    \/ \E g \in Calls : ConnectFail(g)
    \/ Signal
    \/ \E ok \in BOOLEAN : SignalClosed(ok)

SpecShutdown == Init /\ [][NextShutdown]_vars

\* ================================================================ claims
\* steps of a getClient invocation, told from the state before and after
Starts(g) == calls[g].pc = "idle" /\ calls'[g].pc # "idle"

Returns(g) == calls[g].res = "none" /\ calls'[g].res = "client"

Throws(g, err) == calls[g].res = "none" /\ calls'[g].res = err

InFlight(id) == \E g \in Calls : calls[g].id = id /\ calls[g].pc \in {"connect", "evict"}

Connected(id) == {g \in Calls : calls[g].id = id /\ hstate[g] = "connected"}

CloseWasStarted(h) == hstate[h] \in {"closing", "closed"}

CloseIsStarted(h) == hstate'[h] \in {"closing", "closed"}

\* C1: single-flight. For every connection id at most one driver client is
\* connected, every call that got a connected client got that one, and no
\* connected client is outside the pool map.
C1_SingleFlight ==
    \A id \in Ids :
        /\ Cardinality(Connected(id)) <= 1
        /\ Connected(id) \subseteq Cached(clients)
        /\ \A g1, g2 \in Calls :
              (/\ calls[g1].id = id /\ calls[g1].res = "client" /\ hstate[calls[g1].ret] = "connected"
               /\ calls[g2].id = id /\ calls[g2].res = "client" /\ hstate[calls[g2].ret] = "connected")
                  => calls[g1].ret = calls[g2].ret

\* C2: no getClient call that returns after the record was removed returns a
\* client, and once a deleteConnection(id) has answered and no getClient(id) is
\* in flight, the pool map holds no client for the removed id.
C2_NoClientForDeletedRecord ==
    /\ [][\A g \in Calls : Returns(g) => records'[calls'[g].id] # 0]_vars
    /\ [](\A id \in Ids :
            (/\ records[id] = 0
             /\ \E r \in Reqs : /\ reqs[r].pc = "done" /\ reqs[r].kind = "delete"
                                /\ reqs[r].id = id /\ reqs[r].res = "ok"
             /\ ~InFlight(id))
                => ~Has(clients, id))

\* an updateConnection(id) answered with success and its record is the saved one
Updated(id) ==
    \E r \in Reqs : /\ reqs[r].pc = "done" /\ reqs[r].kind = "update" /\ reqs[r].id = id
                    /\ reqs[r].res = "ok" /\ records[id] = EditedVersion(r)

\* C3: after updateConnection(id) has completed, every client getClient(id)
\* returns and every client cached for id was built from the updated record.
C3_NoStaleClientAfterUpdate ==
    /\ [][\A g \in Calls :
            (Returns(g) /\ Updated(calls'[g].id))
                => calls'[calls'[g].ret].ver = records'[calls'[g].id]]_vars
    /\ [](\A id \in Ids :
            (Updated(id) /\ Has(clients, id)) => calls[Get(clients, id).client].ver = records[id])

\* C4: getClient never returns a handle on which close has already been started.
C4_ReturnedClientReady ==
    [][\A g \in Calls : Returns(g) => hstate'[calls'[g].ret] = "connected"]_vars

\* C5: getClient(id) for an id without a record throws NotFound and creates no
\* driver client; when a client was cached for id, close was called on it and
\* the pool map has no entry for id when the error is thrown.
C5_MissingRecord ==
    [][\A g \in Calls :
        /\ (Starts(g) /\ records[calls'[g].id] = 0) =>
              /\ hstate'[g] = "none"
              /\ IF Has(clients, calls'[g].id)
                 THEN /\ calls'[g].pc = "evict" /\ calls'[g].res = "none"
                      /\ calls'[g].closing = Get(clients, calls'[g].id).client
                      /\ CloseIsStarted(calls'[g].closing)
                 ELSE calls'[g].pc = "done" /\ calls'[g].res = "NotFound"
        /\ (calls[g].pc = "evict" /\ calls'[g] # calls[g]) =>
              /\ calls'[g].res = "NotFound"
              /\ hstate'[g] = "none"
              /\ CloseIsStarted(calls[g].closing)
              /\ calls[g].closing \notin Cached(clients')
              /\ ~Has(clients', calls[g].id)
        /\ Throws(g, "NotFound") => calls'[g].ver = 0 /\ ~Has(clients', calls'[g].id)
        /\ (Returns(g) \/ Throws(g, "ConnectionFailed")) => calls'[g].ver # 0]_vars

C5_Witness ==
    \E g \in Calls :
        /\ calls[g].res = "NotFound"
        /\ calls[g].closing # NoHandle
        /\ CloseWasStarted(calls[g].closing)
        /\ ~Has(clients, calls[g].id)
        /\ records[calls[g].id] = 0

\* C6: when the driver connect fails, getClient throws ConnectionFailed and
\* leaves the pool map as it was, without an entry for the failed client; a
\* later getClient(id) starts a connect on a client of its own, and a connect
\* that succeeds caches that client.
C6_ConnectFailure ==
    [][\A g \in Calls :
        /\ Throws(g, "ConnectionFailed") =>
              /\ calls[g].pc = "connect"
              /\ clients' = clients
              /\ hstate'[g] = "failed"
              /\ g \notin Cached(clients')
        /\ (Starts(g) /\ records[calls'[g].id] # 0 /\ ~Has(clients, calls'[g].id)) =>
              /\ calls'[g].pc = "connect"
              /\ hstate[g] = "none" /\ hstate'[g] = "connecting"
        /\ (calls[g].pc = "connect" /\ Returns(g)) =>
              /\ calls'[g].ret = g
              /\ Has(clients', calls[g].id)
              /\ Get(clients', calls[g].id).client = g
              /\ hstate'[g] = "connected"]_vars

C6_Witness ==
    \E g1, g2 \in Calls :
        /\ calls[g1].res = "ConnectionFailed"
        /\ calls[g2].id = calls[g1].id
        /\ calls[g2].afterFailure
        /\ calls[g2].res = "client" /\ calls[g2].ret = g2
        /\ Has(clients, calls[g2].id) /\ Get(clients, calls[g2].id).client = g2
        /\ g1 \notin Cached(clients)

\* C7: getClient(id) with a record and a cached client returns the cached
\* handle, sets its lastUsed to the current time, creates no driver client and
\* leaves the entries of all other ids as they were.
C7_CachedLookup ==
    [][\A g \in Calls :
        (Starts(g) /\ records[calls'[g].id] # 0 /\ Has(clients, calls'[g].id)) =>
            LET id == calls'[g].id IN
            /\ calls'[g].pc = "done" /\ calls'[g].res = "client"
            /\ calls'[g].ret = Get(clients, id).client
            /\ Has(clients', id)
            /\ Get(clients', id).client = Get(clients, id).client
            /\ Get(clients', id).lastUsed = now
            /\ hstate' = hstate
            /\ Len(clients') = Len(clients)
            /\ \A i \in 1..Len(clients) :
                  /\ clients'[i].id = clients[i].id
                  /\ clients[i].id # id => clients'[i] = clients[i]]_vars

C7_Witness ==
    \E g \in Calls :
        /\ calls[g].res = "client" /\ calls[g].ret # g
        /\ Len(clients) = 2
        /\ Get(clients, calls[g].id).client = calls[g].ret
        /\ Get(clients, calls[g].id).lastUsed = now
        /\ \E i \in 1..Len(clients) : clients[i].id # calls[g].id /\ clients[i].lastUsed < now

\* C8: closeConnection(id) never throws; when it completes the pool map has
\* no entry for id, also when the driver close failed; called for an id
\* without an entry it changes nothing.
C8_CloseConnection ==
    [][/\ \A r \in Reqs :
            /\ (reqs[r].pc = "closing" /\ reqs'[r] # reqs[r]) =>
                  /\ ~Has(clients', reqs[r].id)
                  /\ reqs'[r].pc = "done" /\ reqs'[r].res \in {"ok", "SaveFailed"}
            /\ (reqs[r].pc = "idle" /\ reqs'[r].pc # "idle" /\ records[reqs'[r].id] # 0
                    /\ ~Has(clients, reqs'[r].id)) =>
                  /\ clients' = clients /\ hstate' = hstate
                  /\ reqs'[r].pc = "done" /\ reqs'[r].res \in {"ok", "SaveFailed"}
       /\ \A g \in Calls :
            (calls[g].pc = "evict" /\ calls'[g] # calls[g]) => ~Has(clients', calls[g].id)]_vars

C8_Witness ==
    \E r \in Reqs :
        /\ reqs[r].pc = "done"
        /\ reqs[r].closing # NoHandle
        /\ hstate[reqs[r].closing] = "closing"
        /\ ~Has(clients, reqs[r].id)

\* a sweep tick starts the close of every cached client whose lastUsed is more
\* than the idle timeout ago and touches no other client; the end of such a
\* close removes the entry
TickSweepsIdle ==
    /\ (\E p \in Ids \X Calls : sweepClosers'[p] > sweepClosers[p]) =>
          /\ clients' = clients
          /\ \A i \in 1..Len(clients) :
                LET e == clients[i]
                    p == <<e.id, e.client>>
                IN IF now - e.lastUsed > IdleTimeout
                   THEN /\ sweepClosers'[p] = sweepClosers[p] + 1
                        /\ CloseIsStarted(e.client)
                   ELSE /\ sweepClosers'[p] = sweepClosers[p]
                        /\ hstate'[e.client] = hstate[e.client]
    /\ \A p \in Ids \X Calls :
          sweepClosers'[p] < sweepClosers[p] =>
              /\ ~Has(clients', p[1])
              /\ CloseIsStarted(p[2])

CachedAt(h, t) == \E i \in 1..Len(clients) : clients[i].client = h /\ clients[i].lastUsed = t

LookedUpAfter(h, t) == \E i \in 1..Len(clients) : clients[i].client = h /\ clients[i].lastUsed > t

\* C9: each sweep tick closes and removes every cached client whose lastUsed
\* is older than the idle timeout and leaves the others cached; so a cached
\* client that is not looked up again is closed and removed: a client that
\* was cached and on which close was never called is still in the pool map,
\* and it leaves the map closed unless it is looked up again.
C9_IdleSweep ==
    /\ [][TickSweepsIdle]_vars
    /\ [](\A h \in Calls : hstate[h] = "connected" => h \in Cached(clients))
    /\ \A h \in Calls, t \in 0..(MaxTime - IdleTimeout - 1) :
          CachedAt(h, t) ~> (LookedUpAfter(h, t) \/ (CloseWasStarted(h) /\ h \notin Cached(clients)))

\* C10: at process exit the pool map is empty and close was called on every
\* client that was cached when the signal arrived.
C10_ShutdownClosesAll ==
    sig.pc = "exited" =>
        /\ clients = << >>
        /\ \A h \in sig.atSignal : CloseWasStarted(h)
\* ================================================== testConnection
\* connection strings that buildUri hands to the driver: the `uri` of the
\* configuration as it was typed, or one built from host and port; a text is
\* the sequence of its parts
TestUris == {<<"mongodb://", "db1.example.com:27017">>, <<"mongodb+srv://", "cluster0.example.com">>,
             <<"mongodb://", "localhost", ":", "27017">>,
             <<"http://", "db1.example.com">>, <<"db1.example.com:27017">>}

\* new MongoClient(uri, options) parses the connection string and throws
\* unless it starts with one of the two schemes
MongoClientAccepts(uri) == uri # << >> /\ uri[1] \in {"mongodb://", "mongodb+srv://"}

\* the error thrown by the constructor
ParseError == [code |-> 0, codeName |-> "MongoParseError", message |-> "Invalid scheme"]

\* errors a driver call on the temporary client may throw
DriverErrors ==
    {[code |-> 13, codeName |-> "Unauthorized", message |-> "command listDatabases requires authentication"],
     [code |-> 0, codeName |-> "Unauthorized", message |-> "not authorized on admin"],
     [code |-> 18, codeName |-> "AuthenticationFailed", message |-> "Authentication failed."],
     [code |-> 0, codeName |-> "MongoServerSelectionError", message |-> "connect ECONNREFUSED"]}

\* serverInfo.version
Versions == {"6.0.12", "7.0.5"}

\* a message that is the driver's own whatever the error
FailureMessage_Unclassified(err) == <<"Connection failed: ", err.message>>

\* the message of the failure result
FailureMessage(err) ==
    IF err.code = 13 \/ err.codeName = "Unauthorized"
    THEN <<"Connection failed: ", "Authentication failed. Please check username and password.">>
    ELSE IF err.code = 18
         THEN <<"Connection failed: ", "Authentication failed. Invalid credentials.">>
         ELSE <<"Connection failed: ", err.message>>

Success(version) == [success |-> TRUE, message |-> <<"Successfully connected to MongoDB ", version>>,
                     version |-> version]

Failure(err) == [success |-> FALSE, message |-> FailureMessage(err), version |-> "none"]

\* a catch block that reports the failure and leaves the client open
TestCatch_NoClose(t, err) == [t EXCEPT !.pc = "done", !.err = err, !.result = Failure(err)]

\* the catch block up to its `await client.close()`
TestCatch(t, err) ==
    [t EXCEPT !.pc = "catchClose", !.err = err, !.closeCalls = @ + 1, !.client = "closing"]

\* testConnection up to `await client.connect()`; the constructor runs
\* before the try block, its exception rejects the promise of testConnection
TestConnection(uri) ==
    /\ Running
    /\ test.pc = "idle"
    /\ IF MongoClientAccepts(uri)
       THEN test' = [test EXCEPT !.pc = "connect", !.uri = uri, !.client = "connecting"]
       ELSE test' = [test EXCEPT !.pc = "thrown", !.uri = uri, !.err = ParseError]
    /\ UNCHANGED <<records, clients, hstate, calls, reqs, sweepClosers, sig, now, shell, codec, more>>

\* client.connect() settled
TestConnected(ok, err) ==
    /\ test.pc = "connect"
    /\ IF ok
       THEN test' = [test EXCEPT !.pc = "listDatabases", !.client = "connected"]
       ELSE test' = TestCatch(test, err)
    /\ UNCHANGED <<records, clients, hstate, calls, reqs, sweepClosers, sig, now, shell, codec, more>>

\* adminDb.command({listDatabases: 1}) settled
TestListed(ok, err) ==
    /\ test.pc = "listDatabases"
    /\ IF ok
       THEN test' = [test EXCEPT !.pc = "buildInfo"]
       ELSE test' = TestCatch(test, err)
    /\ UNCHANGED <<records, clients, hstate, calls, reqs, sweepClosers, sig, now, shell, codec, more>>

\* adminDb.command({buildInfo: 1}) settled; on success client.close() starts
TestBuildInfo(ok, err, version) ==
    /\ test.pc = "buildInfo"
    /\ IF ok
       THEN test' = [test EXCEPT !.pc = "close", !.version = version,
                                 !.closeCalls = @ + 1, !.client = "closing"]
       ELSE test' = TestCatch(test, err)
    /\ UNCHANGED <<records, clients, hstate, calls, reqs, sweepClosers, sig, now, shell, codec, more>>

\* the close() of the try block settled; when it threw the catch block runs
TestClosed(ok, err) ==
    /\ test.pc = "close"
    /\ IF ok
       THEN test' = [test EXCEPT !.pc = "done", !.client = "closed",
                                 !.result = Success(test.version)]
       ELSE test' = TestCatch(test, err)
    /\ UNCHANGED <<records, clients, hstate, calls, reqs, sweepClosers, sig, now, shell, codec, more>>

\* the close() of the catch block settled, its own error is ignored
TestCatchClosed(ok) ==
    /\ test.pc = "catchClose"
    /\ test' = [test EXCEPT !.pc = "done", !.client = IF ok THEN "closed" ELSE @,
                            !.result = Failure(test.err)]
    /\ UNCHANGED <<records, clients, hstate, calls, reqs, sweepClosers, sig, now, shell, codec, more>>

\* one testConnection next to getClient calls on the pool
NextTest ==
    \/ \E g \in 1..PoolCalls, id \in Ids : GetClient(g, id)
    \/ \E g \in 1..PoolCalls : ConnectOk(g)
    \/ \E g \in 1..PoolCalls : ConnectFail(g)
    \/ \E uri \in TestUris : TestConnection(uri)
    \/ \E ok \in BOOLEAN, err \in DriverErrors : TestConnected(ok, err)
    \/ \E ok \in BOOLEAN, err \in DriverErrors : TestListed(ok, err)
    \/ \E ok \in BOOLEAN, err \in DriverErrors, v \in Versions : TestBuildInfo(ok, err, v)
    \/ \E ok \in BOOLEAN, err \in DriverErrors : TestClosed(ok, err)
    \/ \E ok \in BOOLEAN : TestCatchClosed(ok)

SpecTest == Init /\ [][NextTest]_vars

\* ------------------------------------------------------------- C11, C12
\* C11: testConnection never throws: for every configuration, also one
\* whose connection string the driver rejects when the client is
\* constructed, and for every driver failure, the invocation ends with a
\* result object {success, message}.
C11_TestNeverThrows ==
    /\ test.pc # "thrown"
    /\ test.pc = "done" => test.result # NoResult

\* the temporary client had close() called on it and the call has settled
TestClientReleased(t) == t.closeCalls >= 1 /\ t.client \in {"closing", "closed"}

\* C12: testConnection uses its own client: no step of it changes the pool
\* map or a pooled client, and when it returns its result (success, connect
\* failure or command failure) close() has been called on the temporary
\* client and awaited; the client is closed unless every close() threw.
C12_TestClientNotPooled ==
    [][test' # test =>
        /\ clients' = clients /\ hstate' = hstate
        /\ test'.pc = "done" =>
              /\ TestClientReleased(test')
              /\ test'.result.success => test'.client = "closed"]_vars

\* a failed test returned its result while the pool holds a client
C12_Witness ==
    /\ test.pc = "done" /\ ~test.result.success /\ test.client = "closed"
    /\ clients # << >>

\* ------------------------------------------------------------------ C22
\* the errors the code tells apart as authentication failures
AuthFailure(err) == err.code \in {13, 18} \/ err.codeName = "Unauthorized"

AuthMessages == {"Authentication failed. Please check username and password.",
                 "Authentication failed. Invalid credentials."}

\* C22: a failed testConnection reports an error with code 13, codeName
\* Unauthorized or code 18 with an authentication-failure message and every
\* other error it caught with the driver's own message; success is false
\* and no version is returned.
C22_FailureClassified ==
    (test.pc = "done" /\ test.err # NoError) =>
        /\ ~test.result.success /\ test.result.version = "none"
        /\ test.result.message[1] = "Connection failed: "
        /\ AuthFailure(test.err) => test.result.message[2] \in AuthMessages
        /\ ~AuthFailure(test.err) => test.result.message[2] = test.err.message

\* a driver call failed with code 18 and the result names the credentials
C22_Witness ==
    /\ test.pc = "done" /\ test.err.code = 18 /\ test.closeCalls = 1
    /\ test.result = [success |-> FALSE, version |-> "none",
                       message |-> <<"Connection failed: ",
                                     "Authentication failed. Invalid credentials.">>]

\* ==================================================== executeShell
\* A command text is kept as the lexemes the patterns of executeShell tell
\* apart: `db.<coll>.<method>(` is the pair (coll, method), body is what
\* follows it.  Lexemes of a body: ")" "," "{" "}" "[" "]", "p" a member
\* "key": 1, "k:" a key with its colon, "5" digits, "sp" blanks, "nl" a line
\* break, "'name'" a quoted word, ".limit(" ".skip(" ".sort(", a word, and
\* "@" for text that is neither JSON nor a word.

\* ------------------------------------------------------------ JSON.parse
Blank(t) == t \in {"sp", "nl"}

\* the text without the white space JSON.parse skips; stands for the value
Strip(s) == SelectSeq(s, LAMBDA t : ~Blank(t))

RECURSIVE TrimStart(_)
TrimStart(s) == IF s # << >> /\ Blank(Head(s)) THEN TrimStart(Tail(s)) ELSE s

RECURSIVE TrimEnd(_)
TrimEnd(s) == IF s # << >> /\ Blank(s[Len(s)]) THEN TrimEnd(SubSeq(s, 1, Len(s) - 1)) ELSE s

\* String.prototype.trim
Trim(s) == TrimEnd(TrimStart(s))

\* what a parser returns when the text is no JSON
Unparsed == <<"#">>

RECURSIVE ParseValue(_)
RECURSIVE ParseMembers(_)
RECURSIVE ParseElements(_)
\* the text left after one JSON value at the head of s
ParseValue(s) ==
    IF s = << >> THEN Unparsed
    ELSE IF Head(s) = "5" THEN Tail(s)
    ELSE IF Head(s) = "{"
         THEN IF Len(s) >= 2 /\ s[2] = "}" THEN SubSeq(s, 3, Len(s)) ELSE ParseMembers(Tail(s))
    ELSE IF Head(s) = "["
         THEN IF Len(s) >= 2 /\ s[2] = "]" THEN SubSeq(s, 3, Len(s)) ELSE ParseElements(Tail(s))
    ELSE Unparsed

\* the text left after the members of an object and its "}"
ParseMembers(s) ==
    LET r == IF s = << >> THEN Unparsed
             ELSE IF Head(s) = "p" THEN Tail(s)
             ELSE IF Head(s) = "k:" THEN ParseValue(Tail(s))
             ELSE Unparsed
    IN  IF r = Unparsed \/ r = << >> THEN Unparsed
        ELSE IF Head(r) = "}" THEN Tail(r)
        ELSE IF Head(r) = "," THEN ParseMembers(Tail(r))
        ELSE Unparsed

\* the text left after the elements of an array and its "]"
ParseElements(s) ==
    LET r == ParseValue(s)
    IN  IF r = Unparsed \/ r = << >> THEN Unparsed
        ELSE IF Head(r) = "]" THEN Tail(r)
        ELSE IF Head(r) = "," THEN ParseElements(Tail(r))
        ELSE Unparsed

\* JSON.parse(s) does not throw
IsJson(s) == ParseValue(Strip(s)) = << >>

\* the value JSON.parse(s) returns
JsonParse(s) == Strip(s)

\* Array.isArray
IsArray(v) == v # << >> /\ v[1] = "["

\* the filter {} the read branches start from
EmptyFilter == <<"{", "}">>

\* -------------------------------------------------- the patterns' captures
Words == {"shop", "logs"}

QuotedWords == {"'name'"}

Digits == {"5"}

\* `.` matches no line break
NoLineBreak(s) == \A i \in 1..Len(s) : s[i] # "nl"

Closed1(body) == body # << >> /\ body[Len(body)] = ")"

\* the text between "(" and the closing ")" at the end of the command
Inner(body) == SubSeq(body, 1, Len(body) - 1)

\* \((.*?)\)$
MatchLine(body) == Closed1(body) /\ NoLineBreak(Inner(body))

\* \(([\s\S]*)\)$
MatchAny(body) == Closed1(body)

\* \(\)$
MatchNone(body) == body = <<")">>

\* \(['"](\w+)['"]\)$
MatchQuoted(body) == Len(body) = 2 /\ body[1] \in QuotedWords /\ body[2] = ")"

LastComma(s) == CHOOSE i \in 1..Len(s) : s[i] = "," /\ \A j \in (i + 1)..Len(s) : s[j] # ","

\* \(([\s\S]*),([\s\S]*)\)$ : the first capture is greedy and takes all up
\* to the last comma
MatchTwo(body) == Closed1(body) /\ \E i \in 1..(Len(body) - 1) : body[i] = ","

FirstArg(body) == SubSeq(Inner(body), 1, LastComma(Inner(body)) - 1)

SecondArg(body) == SubSeq(Inner(body), LastComma(Inner(body)) + 1, Len(body) - 1)

\* (?:\.limit\((\d+)\))?(?:\.skip\((\d+)\))?(?:\.sort\((.*?)\))?$ on the
\* text r after the filter's ")"
Chain(r) ==
    LET hasLimit == Len(r) >= 3 /\ r[1] = ".limit(" /\ r[2] \in Digits /\ r[3] = ")"
        r1 == IF hasLimit THEN SubSeq(r, 4, Len(r)) ELSE r
        hasSkip == Len(r1) >= 3 /\ r1[1] = ".skip(" /\ r1[2] \in Digits /\ r1[3] = ")"
        r2 == IF hasSkip THEN SubSeq(r1, 4, Len(r1)) ELSE r1
        hasSort == Len(r2) >= 2 /\ r2[1] = ".sort(" /\ r2[Len(r2)] = ")"
                   /\ NoLineBreak(SubSeq(r2, 2, Len(r2) - 1))
    IN  [ok |-> r2 = << >> \/ hasSort,
         limit |-> IF hasLimit THEN <<r[2]>> ELSE << >>,
         skip |-> IF hasSkip THEN <<r1[2]>> ELSE << >>,
         sort |-> IF hasSort THEN SubSeq(r2, 2, Len(r2) - 1) ELSE << >>]

\* positions of a ")" that can end the filter of find
FindEnds(body) ==
    {k \in 1..Len(body) : /\ body[k] = ")"
                          /\ NoLineBreak(SubSeq(body, 1, k - 1))
                          /\ Chain(SubSeq(body, k + 1, Len(body))).ok}

MatchFind(body) == FindEnds(body) # {}

\* (.*?) is lazy: the first ")" after which the rest of the pattern matches
FindEnd(body) == CHOOSE k \in FindEnds(body) : \A j \in FindEnds(body) : k <= j

\* ------------------------------------------------------ results of a run
Op(op, db, coll, args) == [op |-> op, db |-> db, coll |-> coll, args |-> args]

Data(what) == [status |-> 200, kind |-> "data", what |-> what, database |-> ""]

Error(what) == [status |-> 200, kind |-> "error", what |-> what, database |-> ""]

\* what one run did: driver calls in order, calls of res.json, the last
\* response, and whether next(error) was called
Outcome(ops, res) == [ops |-> ops, sent |-> 1, res |-> res, passed |-> FALSE]

\* a driver call outside an inner try: its error reaches the outer catch
Run(op, ok) == Outcome(<<op>>, IF ok THEN Data(op.op) ELSE Error("driver error"))

\* try { JSON.parse ...; driver call } catch (e) { res.json({error: label + e.message}) }
Guarded(parsed, op, ok, label) ==
    IF parsed
    THEN Outcome(<<op>>, IF ok THEN Data(op.op) ELSE Error(label))
    ELSE Outcome(<< >>, Error(label))

\* let filter = {}; if (filterStr && filterStr.trim()) try { filter = JSON.parse(filterStr) } catch (e) {}
ReadFilter(filterStr) ==
    IF Trim(filterStr) # << >> /\ IsJson(filterStr) THEN JsonParse(filterStr) ELSE EmptyFilter

\* ------------------------------------------------------------- branches
ShellFind(c, db, ok) ==
    LET k == FindEnd(c.body)
        ch == Chain(SubSeq(c.body, k + 1, Len(c.body)))
        filter == ReadFilter(SubSeq(c.body, 1, k - 1))
        sort == IF ch.sort # << >> /\ IsJson(ch.sort) THEN JsonParse(ch.sort) ELSE << >>
        limit == IF ch.limit # << >> THEN ch.limit ELSE <<"20">>
    IN  Run(Op("find", db, c.coll, <<filter, sort, ch.skip, limit>>), ok)

ShellFindOne(c, db, ok) == Run(Op("findOne", db, c.coll, <<ReadFilter(Inner(c.body))>>), ok)

ShellCountDocuments(c, db, ok) ==
    Run(Op("countDocuments", db, c.coll, <<ReadFilter(Inner(c.body))>>), ok)

\* the count branch calling the deprecated collection.count
ShellCount_Deprecated(c, db, ok) ==
    Run(Op("count", db, c.coll, <<ReadFilter(Inner(c.body))>>), ok)

\* db.collection.count(): its own branch, calls collection.countDocuments
ShellCount(c, db, ok) ==
    LET filterStr == Inner(c.body)
        filter == IF Trim(filterStr) # << >> /\ IsJson(filterStr)
                  THEN JsonParse(filterStr) ELSE EmptyFilter
    IN  Run(Op("countDocuments", db, c.coll, <<filter>>), ok)

ShellDistinct(c, db, ok) == Run(Op("distinct", db, c.coll, <<<<c.body[1]>>>>), ok)

ShellGetIndexes(c, db, ok) == Run(Op("indexes", db, c.coll, << >>), ok)

ShellCollStats(c, db, ok) == Run(Op("collStats", db, c.coll, << >>), ok)

ShellInsertOne(c, db, ok) ==
    LET docStr == Inner(c.body)
    IN  Guarded(IsJson(docStr), Op("insertOne", db, c.coll, <<JsonParse(docStr)>>), ok,
                "Invalid document JSON: ")

ShellInsert(c, db, ok) ==
    LET docStr == Inner(c.body)
        op == IF IsArray(JsonParse(docStr)) THEN "insertMany" ELSE "insertOne"
    IN  Guarded(IsJson(docStr), Op(op, db, c.coll, <<JsonParse(docStr)>>), ok,
                "Invalid document JSON: ")

ShellInsertMany(c, db, ok) ==
    LET docsStr == Inner(c.body)
    IN  Guarded(IsJson(docsStr), Op("insertMany", db, c.coll, <<JsonParse(docsStr)>>), ok,
                "Invalid documents JSON: ")

\* updateOne and updateMany: the same code but for the driver call
ShellUpdate(c, db, ok) ==
    LET filterStr == FirstArg(c.body)
        updateStr == SecondArg(c.body)
    IN  Guarded(IsJson(Trim(filterStr)) /\ IsJson(Trim(updateStr)),
                Op(c.method, db, c.coll, <<JsonParse(Trim(filterStr)), JsonParse(Trim(updateStr))>>),
                ok, "Invalid JSON: ")

ShellDeleteOne(c, db, ok) ==
    LET filterStr == Inner(c.body)
    IN  Guarded(IsJson(Trim(filterStr)), Op("deleteOne", db, c.coll, <<JsonParse(Trim(filterStr))>>),
                ok, "Invalid filter JSON: ")

\* (deleteMany|remove): one branch, the method that matched is not read
ShellDeleteMany(c, db, ok) ==
    LET filterStr == Inner(c.body)
    IN  Guarded(IsJson(Trim(filterStr)), Op("deleteMany", db, c.coll, <<JsonParse(Trim(filterStr))>>),
                ok, "Invalid filter JSON: ")

ShellDrop(c, db, ok) == Run(Op("drop", db, c.coll, << >>), ok)

ShellAggregate(c, db, ok) ==
    LET pipelineStr == Inner(c.body)
    IN  Guarded(IsJson(pipelineStr), Op("aggregate", db, c.coll, <<JsonParse(pipelineStr)>>), ok,
                "Invalid pipeline JSON: ")

ShellCreateIndex(c, db, ok) ==
    LET keysStr == Inner(c.body)
    IN  Guarded(IsJson(keysStr), Op("createIndex", db, c.coll, <<JsonParse(keysStr)>>), ok,
                "Invalid keys JSON: ")

ShellDropIndex(c, db, ok) == Run(Op("dropIndex", db, c.coll, <<<<c.body[1]>>>>), ok)

\* `use <database>`: the response names the database, nothing else happens
ShellUse(c, db, ok) ==
    Outcome(<< >>, [status |-> 200, kind |-> "data", what |-> "switched to db",
                    database |-> c.body[1]])

ShellCreateCollection(c, db, ok) == Run(Op("createCollection", db, c.body[1], << >>), ok)

\* a JSON object given as the whole command
ShellRaw(c, db, ok) ==
    Guarded(IsJson(c.body), Op("command", db, "", <<JsonParse(c.body)>>), ok,
            "Invalid JSON command: ")

\* a last branch that hands the text to db.command
ShellUnknown_AsCommand(c, db, ok) == Run(Op("command", db, "", <<c.body>>), ok)

\* no pattern matched
ShellUnknown(c, db, ok) == Outcome(<< >>, Error("Unknown command. Supported commands: "))

\* the whole command is the literal text
Literal(c, text) == ~c.padded /\ c.coll = "" /\ c.method = text /\ c.body = << >>

\* ^db\.(\w+)\.<method>\( at the start of the command
Method(c, method) == ~c.padded /\ c.coll # "" /\ c.method = method

\* the branches in the order of the code: the first pattern that matches runs
Dispatch(c, db, ok) ==
    IF Literal(c, "db.getCollectionNames()") THEN Run(Op("listCollections", db, "", << >>), ok)
    ELSE IF Literal(c, "db.stats()") THEN Run(Op("stats", db, "", << >>), ok)
    ELSE IF Method(c, "find") /\ MatchFind(c.body) THEN ShellFind(c, db, ok)
    ELSE IF Method(c, "findOne") /\ MatchLine(c.body) THEN ShellFindOne(c, db, ok)
    ELSE IF Method(c, "countDocuments") /\ MatchLine(c.body) THEN ShellCountDocuments(c, db, ok)
    ELSE IF Method(c, "count") /\ MatchLine(c.body) THEN ShellCount(c, db, ok)
    ELSE IF Method(c, "distinct") /\ MatchQuoted(c.body) THEN ShellDistinct(c, db, ok)
    ELSE IF Method(c, "getIndexes") /\ MatchNone(c.body) THEN ShellGetIndexes(c, db, ok)
    ELSE IF Method(c, "stats") /\ MatchNone(c.body) THEN ShellCollStats(c, db, ok)
    ELSE IF Method(c, "insertOne") /\ MatchAny(c.body) THEN ShellInsertOne(c, db, ok)
    ELSE IF Method(c, "insert") /\ MatchAny(c.body) THEN ShellInsert(c, db, ok)
    ELSE IF Method(c, "insertMany") /\ MatchAny(c.body) THEN ShellInsertMany(c, db, ok)
    ELSE IF Method(c, "updateOne") /\ MatchTwo(c.body) THEN ShellUpdate(c, db, ok)
    ELSE IF Method(c, "updateMany") /\ MatchTwo(c.body) THEN ShellUpdate(c, db, ok)
    ELSE IF Method(c, "deleteOne") /\ MatchAny(c.body) THEN ShellDeleteOne(c, db, ok)
    ELSE IF (Method(c, "deleteMany") \/ Method(c, "remove")) /\ MatchAny(c.body)
         THEN ShellDeleteMany(c, db, ok)
    ELSE IF Method(c, "drop") /\ MatchNone(c.body) THEN ShellDrop(c, db, ok)
    ELSE IF Method(c, "aggregate") /\ MatchAny(c.body) THEN ShellAggregate(c, db, ok)
    ELSE IF Method(c, "createIndex") /\ MatchAny(c.body) THEN ShellCreateIndex(c, db, ok)
    ELSE IF Method(c, "dropIndex") /\ MatchQuoted(c.body) THEN ShellDropIndex(c, db, ok)
    ELSE IF ~c.padded /\ c.coll = "" /\ c.method = "use" /\ Len(c.body) = 1 /\ c.body[1] \in Words
         THEN ShellUse(c, db, ok)
    ELSE IF ~c.padded /\ c.coll = "" /\ c.method = "db.createCollection(" /\ MatchQuoted(c.body)
         THEN ShellCreateCollection(c, db, ok)
    ELSE IF Literal(c, "db.dropDatabase()") THEN Run(Op("dropDatabase", db, "", << >>), ok)
    ELSE IF Literal(c, "show dbs") \/ Literal(c, "show databases")
         THEN Run(Op("listDatabases", "admin", "", << >>), ok)
    ELSE IF Literal(c, "show collections") THEN Run(Op("listCollections", db, "", << >>), ok)
    ELSE IF ~c.padded /\ c.coll = "" /\ c.method = "" /\ c.body # << >> /\ c.body[1] = "{"
         THEN ShellRaw(c, db, ok)
    ELSE ShellUnknown(c, db, ok)

\* !command: the empty string
Missing(command) == command = EmptyCommand

\* command.trim()
Trimmed(command) == [command EXCEPT !.padded = FALSE]

\* a run that takes its database from the `use` answered before
TargetDb_Sticky(prev, database) ==
    IF prev.res.what = "switched to db" THEN prev.res.database
    ELSE IF database = "" THEN "admin" ELSE database

\* client.db(database || 'admin'); nothing of an earlier run is read
TargetDb(prev, database) == IF database = "" THEN "admin" ELSE database

\* the message of the error getClient threw
PoolError(pool) ==
    IF pool = "NotFound" THEN Error("Connection not found") ELSE Error("Failed to connect to MongoDB: ")

\* one run of the handler: pool is how getClient ended for the connection
\* id of the request, ok whether the driver call of the branch succeeded
ExecuteShellRun(prev, command, database, pool, ok) ==
    IF Missing(command)
    THEN Outcome(<< >>, [status |-> 400, kind |-> "error", what |-> "Command is required",
                         database |-> ""])
    ELSE IF pool # "client"
         THEN Outcome(<< >>, PoolError(pool))
         ELSE Dispatch(Trimmed(command), TargetDb(prev, database), ok)


\* ------------------------------------------------ the commands that are run
ValidDocs == {<<"{", "}">>, <<"{", "p", "}">>, <<"{", "p", ",", "p", "}">>,
              <<"{", "k:", "{", "p", ",", "p", "}", "}">>, <<"[", "{", "p", "}", "]">>}

\* argument texts: JSON documents, the empty text, text that is no JSON, and
\* JSON with a blank or a line break in it
ArgTexts == ValidDocs \cup {<< >>, <<"@">>, <<"{", "p">>, <<"sp", "{", "p", "}">>,
                            <<"{", "nl", "p", "}">>}

SortTexts == {<<"{", "p", "}">>, <<"@">>}

\* what may follow the ")" of find
Chains ==
    {<<".limit(", "5", ")">>, <<".skip(", "5", ")">>,
     <<".limit(", "5", ")", ".skip(", "5", ")">>,
     <<".sort(", "{", "p", "}", ")", ".limit(", "5", ")">>}
    \cup {<<".sort(">> \o t \o <<")">> : t \in SortTexts}
    \cup {<<".limit(", "5", ")", ".sort(">> \o t \o <<")">> : t \in SortTexts}

\* the texts put on either side of a comma
PairTexts == {<<"{", "p", "}">>, <<"{", "p", ",", "p", "}">>,
              <<"{", "k:", "{", "p", ",", "p", "}", "}">>, <<"sp", "{", "p", "}">>,
              << >>, <<"@">>}

\* the filters of a find with a chain
ChainFilters == {<< >>, <<"{", "p", "}">>, <<"@">>, <<"{", "nl", "p", "}">>}

Bodies ==
    {t \o <<")">> : t \in ArgTexts}
    \cup {t \o <<",">> \o u \o <<")">> : t \in PairTexts, u \in PairTexts}
    \cup {t \o <<")">> \o ch : t \in ChainFilters, ch \in Chains}
    \cup {<<"'name'", ")">>, <<"{", "p", "}">>}

Methods == {"find", "findOne", "countDocuments", "count", "distinct", "getIndexes", "stats",
            "insertOne", "insert", "insertMany", "updateOne", "updateMany", "deleteOne",
            "deleteMany", "remove", "drop", "aggregate", "createIndex", "dropIndex",
            "mapReduce"}

Colls == {"orders"}

Literals == {"db.getCollectionNames()", "db.stats()", "db.dropDatabase()", "show dbs",
             "show databases", "show collections", "help", ""}

ShellCommands ==
    [padded : BOOLEAN, coll : Colls, method : Methods, body : Bodies]
    \cup [padded : BOOLEAN, coll : {""}, method : Literals, body : {<< >>}]
    \cup [padded : BOOLEAN, coll : {""}, method : {"use"},
          body : {<<"shop">>, <<"logs">>, <<"@">>, << >>}]
    \cup [padded : BOOLEAN, coll : {""}, method : {"db.createCollection("},
          body : {<<"'name'", ")">>, <<"@", ")">>}]
    \cup [padded : BOOLEAN, coll : {""}, method : {""}, body : ArgTexts \ {<<"sp", "{", "p", "}">>}]

\* req.body.database, "" when the request has none
Databases == {"", "logs"}

\* how getClient ends, see GetClient, ConnectOk, ConnectFail
PoolResults == {"client", "NotFound", "ConnectionFailed"}

\* The handler keeps nothing between requests, so a behaviour is one
\* request, or a `use` request and the request after it.
ShellReady == shell.pc = "idle" \/ (shell.res.what = "switched to db" /\ shell.prevUse = "")

\* how a request can go: the driver is called only with a client
ShellEnvs == {e \in [pool : PoolResults, ok : BOOLEAN] : e.pool = "client" \/ e.ok}

\* one request to executeShell
ExecuteShell(command, database, pool, ok) ==
    /\ ShellReady
    /\ LET o == ExecuteShellRun(shell, command, database, pool, ok)
       IN  shell' = [pc |-> "done", cmd |-> command, database |-> database, pool |-> pool,
                     driverOk |-> ok, sent |-> o.sent, res |-> o.res, ops |-> o.ops,
                     passed |-> o.passed,
                     prevUse |-> IF shell.res.what = "switched to db"
                                 THEN shell.res.database ELSE ""]
    /\ UNCHANGED <<records, clients, hstate, calls, reqs, sweepClosers, sig, now, test, codec, more>>

NextShell ==
    /\ ShellReady
    /\ \E command \in ShellCommands, database \in Databases, e \in ShellEnvs :
          ExecuteShell(command, database, e.pool, e.ok)

SpecShell == Init /\ [][NextShell]_vars


\* ------------------------------------------------------------ C13 .. C18
\* the request that was answered, as the patterns see it
ShellCmd == Trimmed(shell.cmd)

\* the request got past `!command` and getClient gave a client
ShellDispatched == shell.pc = "done" /\ ~Missing(shell.cmd) /\ shell.pool = "client"

\* the database the request names
PassedDb == IF shell.database = "" THEN "admin" ELSE shell.database

\* the argument texts a recognized shape captures and hands to JSON.parse
JsonArgs(c) ==
    IF Method(c, "find") /\ MatchFind(c.body)
    THEN {SubSeq(c.body, 1, FindEnd(c.body) - 1),
          Chain(SubSeq(c.body, FindEnd(c.body) + 1, Len(c.body))).sort}
    ELSE IF c.coll # "" /\ c.method \in {"findOne", "countDocuments", "count"} /\ MatchLine(c.body)
         THEN {Inner(c.body)}
    ELSE IF /\ c.coll # ""
            /\ c.method \in {"insertOne", "insert", "insertMany", "deleteOne", "deleteMany",
                             "remove", "aggregate", "createIndex"}
            /\ MatchAny(c.body)
         THEN {Inner(c.body)}
    ELSE IF c.coll # "" /\ c.method \in {"updateOne", "updateMany"} /\ MatchTwo(c.body)
         THEN {FirstArg(c.body), SecondArg(c.body)}
    ELSE {}

InvalidJsonErrors == {"Invalid document JSON: ", "Invalid documents JSON: ", "Invalid JSON: ",
                      "Invalid filter JSON: ", "Invalid pipeline JSON: ", "Invalid keys JSON: "}

\* C13: for every recognized shell shape with a JSON argument (the filter of
\* find, findOne, countDocuments and count and the sort of find included),
\* when a captured argument text is non-empty and not valid JSON, the
\* response is {error: "Invalid ... JSON: ..."} and no driver operation ran.
C13_InvalidJsonReported ==
    (ShellDispatched /\ \E t \in JsonArgs(ShellCmd) : Trim(t) # << >> /\ ~IsJson(t))
    => /\ shell.ops = << >>
       /\ shell.res.kind = "error" /\ shell.res.what \in InvalidJsonErrors

\* C14: when getClient fails (unknown connection id or connect failure),
\* executeShell hands the error to next(error) and sends no {error} result
\* of its own.
C14_PoolFailurePropagates ==
    (shell.pc = "done" /\ ~Missing(shell.cmd) /\ shell.pool # "client")
    => shell.passed /\ shell.sent = 0

\* C15: for updateOne(filter, update) and updateMany(filter, update) with
\* both arguments valid JSON documents, documents with commas in them
\* included, the driver is called once with the first argument as the
\* filter and the second as the update.
C15_UpdateArguments ==
    \A f \in PairTexts, u \in PairTexts :
        ( /\ ShellDispatched /\ IsJson(f) /\ IsJson(u)
          /\ ShellCmd.coll # "" /\ ShellCmd.method \in {"updateOne", "updateMany"}
          /\ ShellCmd.body = f \o <<",">> \o u \o <<")">> )
        => shell.ops = <<Op(ShellCmd.method, PassedDb, ShellCmd.coll, <<JsonParse(f), JsonParse(u)>>)>>

\* the request is `use <name>`
IsUse(c) == c.coll = "" /\ c.method = "use" /\ Len(c.body) = 1 /\ c.body[1] \in Words

UseAnswer(c) == [status |-> 200, kind |-> "data", what |-> "switched to db", database |-> c.body[1]]

\* every driver operation of the request ran against the database passed
\* with it, admin when none was passed (and listDatabases against admin)
RanAgainstPassedDb ==
    \A i \in 1..Len(shell.ops) :
        \/ shell.ops[i].db = PassedDb
        \/ shell.ops[i].op = "listDatabases" /\ shell.ops[i].db = "admin"

Recognized(c) ==
    \/ \E text \in {"db.getCollectionNames()", "db.stats()", "db.dropDatabase()", "show dbs",
                    "show databases", "show collections"} : Literal(c, text)
    \/ Method(c, "find") /\ MatchFind(c.body)
    \/ c.coll # "" /\ c.method \in {"findOne", "countDocuments", "count"} /\ MatchLine(c.body)
    \/ c.coll # "" /\ c.method \in {"distinct", "dropIndex"} /\ MatchQuoted(c.body)
    \/ c.coll # "" /\ c.method \in {"getIndexes", "stats", "drop"} /\ MatchNone(c.body)
    \/ /\ c.coll # ""
       /\ c.method \in {"insertOne", "insert", "insertMany", "deleteOne", "deleteMany", "remove",
                        "aggregate", "createIndex"}
       /\ MatchAny(c.body)
    \/ c.coll # "" /\ c.method \in {"updateOne", "updateMany"} /\ MatchTwo(c.body)
    \/ IsUse(c)
    \/ c.coll = "" /\ c.method = "db.createCollection(" /\ MatchQuoted(c.body)
    \/ c.coll = "" /\ c.method = "" /\ c.body # << >> /\ c.body[1] = "{"

UnknownAnswer == Error("Unknown command. Supported commands: ")

ShellDid == [ops |-> shell.ops, sent |-> shell.sent, res |-> shell.res, passed |-> shell.passed]

\* what the same request does with its method replaced
ShellWould(method) ==
    ExecuteShellRun(ShellIdle, [shell.cmd EXCEPT !.method = method], shell.database,
                    shell.pool, shell.driverOk)

\* C18: for every collection and filter text, db.<c>.count(f) does the same
\* driver operation and gets the same response as db.<c>.countDocuments(f),
\* and db.<c>.remove(f) the same as db.<c>.deleteMany(f).
C18_Aliases ==
    (shell.pc = "done" /\ shell.cmd.coll # "") =>
        /\ shell.cmd.method = "count" => ShellDid = ShellWould("countDocuments")
        /\ shell.cmd.method = "remove" => ShellDid = ShellWould("deleteMany")

\* count with a filter ran collection.countDocuments with that filter
C18_Witness ==
    /\ shell.cmd.method = "count"
    /\ shell.ops = <<Op("countDocuments", PassedDb, "orders", <<<<"{", "p", "}">>>>)>>
    /\ shell.res = Data("countDocuments")


\* ================================== convertExtendedJson / documentToJson
\* A string is the sequence of its characters; a date text is the sequence
\* of its parts: day, "T", time of day, "Z".

\* ------------------------------------------------------ ObjectId and Date
HexDigits == {"0", "1", "2", "3", "4", "5", "6", "7", "8", "9",
              "a", "b", "c", "d", "e", "f", "A", "B", "C", "D", "E", "F"}

LowerCase(ch) ==
    CASE ch = "A" -> "a" [] ch = "B" -> "b" [] ch = "C" -> "c"
      [] ch = "D" -> "d" [] ch = "E" -> "e" [] ch = "F" -> "f" [] OTHER -> ch

\* ObjectId.isValid(s) for a string s: 24 hexadecimal characters
ObjectIdIsValid(s) == Len(s) = 24 /\ \A i \in 1..Len(s) : s[i] \in HexDigits

\* what leaves the function when an exception is thrown in it
Thrown == Val("throw", << >>, << >>)

\* new ObjectId(s): keeps the twelve bytes, throws for any other string
NewObjectId(s) ==
    IF ObjectIdIsValid(s) THEN Val("ObjectId", [i \in 1..Len(s) |-> LowerCase(s[i])], << >>)
    ELSE Thrown

\* ObjectId.prototype.toString: the bytes in lower-case hexadecimal
ObjectIdToString(o) == o.s

Days == {"2024-01-15"}

\* times of day a date text may carry, with and without milliseconds
Millis(time) ==
    CASE time = "10:30:00.000" -> "10:30:00.000" [] time = "10:30:00" -> "10:30:00.000"
      [] OTHER -> "NaN"

\* Date.parse of a text: the time value <<day, time of day>> in UTC, << >> for NaN
DateParse(s) ==
    IF Len(s) = 1 /\ s[1] \in Days THEN <<s[1], "00:00:00.000">>
    ELSE IF Len(s) = 4 /\ s[1] \in Days /\ s[2] = "T" /\ Millis(s[3]) # "NaN" /\ s[4] = "Z"
         THEN <<s[1], Millis(s[3])>>
         ELSE << >>

\* new Date(v) for the value of $date: a string is parsed, a number counts
\* milliseconds from the epoch; never throws
NewDate(v) ==
    IF v.t = "str" THEN Val("Date", DateParse(v.s), << >>)
    ELSE IF v.t = "num" THEN Val("Date", <<"1970-01-01", "00:00:00.001">>, << >>)
    ELSE Val("Date", << >>, << >>)

\* Date.prototype.toISOString
ToISOString(d) == <<d.s[1], "T", d.s[2], "Z">>

\* ----------------------------------------------------------- JSON values
Str(s) == Val("str", s, << >>)

Num == Val("num", <<"1">>, << >>)

\* an object with one member, an array with one element
Obj(k, v) == Val("obj", << >>, <<[k |-> k, v |-> v]>>)

Arr(v) == Val("arr", << >>, <<[k |-> "", v |-> v]>>)

HasKey(o, k) == \E i \in 1..Len(o.kids) : o.kids[i].k = k

Member(o, k) == o.kids[CHOOSE i \in 1..Len(o.kids) : o.kids[i].k = k].v

\* JavaScript truthiness of a JSON value
Truthy(v) == ~(v.t = "null" \/ (v.t = "str" /\ v.s = << >>))

AnyThrown(kids) == \E i \in 1..Len(kids) : kids[i].v = Thrown

\* --------------------------------------------------- convertExtendedJson
RECURSIVE convertExtendedJson(_)
\* documents.js
convertExtendedJson(obj) ==
    IF obj.t = "null" THEN obj
    ELSE IF obj.t = "arr"
    THEN LET kids == [i \in 1..Len(obj.kids) |->
                         [k |-> "", v |-> convertExtendedJson(obj.kids[i].v)]]
         IN  IF AnyThrown(kids) THEN Thrown ELSE Val("arr", << >>, kids)
    ELSE IF obj.t = "obj"
    THEN IF HasKey(obj, "$oid") /\ Truthy(Member(obj, "$oid")) /\ Member(obj, "$oid").t = "str"
         THEN NewObjectId(Member(obj, "$oid").s)
         ELSE IF HasKey(obj, "$date") /\ Truthy(Member(obj, "$date"))
         THEN NewDate(Member(obj, "$date"))
         ELSE LET kids == [i \in 1..Len(obj.kids) |->
                              LET key == obj.kids[i].k
                                  value == obj.kids[i].v
                              IN  IF key = "_id" /\ value.t = "str" /\ ObjectIdIsValid(value.s)
                                  THEN [k |-> key, v |-> NewObjectId(value.s)]
                                  ELSE [k |-> key, v |-> convertExtendedJson(value)]]
              IN  IF AnyThrown(kids) THEN Thrown ELSE Val("obj", << >>, kids)
    ELSE obj

RECURSIVE convertExtendedJson_aggregations(_)
\* aggregations.js: the same without the _id case
convertExtendedJson_aggregations(obj) ==
    IF obj.t = "null" THEN obj
    ELSE IF obj.t = "arr"
    THEN LET kids == [i \in 1..Len(obj.kids) |->
                         [k |-> "", v |-> convertExtendedJson_aggregations(obj.kids[i].v)]]
         IN  IF AnyThrown(kids) THEN Thrown ELSE Val("arr", << >>, kids)
    ELSE IF obj.t = "obj"
    THEN IF HasKey(obj, "$oid") /\ Truthy(Member(obj, "$oid")) /\ Member(obj, "$oid").t = "str"
         THEN NewObjectId(Member(obj, "$oid").s)
         ELSE IF HasKey(obj, "$date") /\ Truthy(Member(obj, "$date"))
         THEN NewDate(Member(obj, "$date"))
         ELSE LET kids == [i \in 1..Len(obj.kids) |->
                              [k |-> obj.kids[i].k,
                               v |-> convertExtendedJson_aggregations(obj.kids[i].v)]]
              IN  IF AnyThrown(kids) THEN Thrown ELSE Val("obj", << >>, kids)
    ELSE obj

RECURSIVE documentToJson(_)
\* documents.js; toISOString throws a RangeError for an invalid date
documentToJson(doc) ==
    IF doc.t = "null" THEN doc
    ELSE IF doc.t = "arr"
    THEN LET kids == [i \in 1..Len(doc.kids) |-> [k |-> "", v |-> documentToJson(doc.kids[i].v)]]
         IN  IF AnyThrown(kids) THEN Thrown ELSE Val("arr", << >>, kids)
    ELSE IF doc.t = "ObjectId" THEN Obj("$oid", Str(ObjectIdToString(doc)))
    ELSE IF doc.t = "Date"
    THEN IF doc.s = << >> THEN Thrown ELSE Obj("$date", Str(ToISOString(doc)))
    ELSE IF doc.t = "obj"
    THEN LET kids == [i \in 1..Len(doc.kids) |->
                         [k |-> doc.kids[i].k, v |-> documentToJson(doc.kids[i].v)]]
         IN  IF AnyThrown(kids) THEN Thrown ELSE Val("obj", << >>, kids)
    ELSE doc

\* ------------------------------------------------ the values that are converted
HexLower == [i \in 1..24 |-> IF i % 2 = 1 THEN "5" ELSE "f"]

HexUpper == [i \in 1..24 |-> IF i % 2 = 1 THEN "5" ELSE "F"]

Strings == {HexLower, HexUpper, <<"h", "e", "l", "l", "o">>, <<"5", "f">>, << >>,
            <<"2024-01-15", "T", "10:30:00.000", "Z">>, <<"2024-01-15", "T", "10:30:00", "Z">>,
            <<"2024-01-15">>}

Scalars == {JNull, Num} \cup {Str(s) : s \in Strings}

\* {$oid: v} and {$date: v}
Wrappers == {Obj(k, v) : k \in {"$oid", "$date"}, v \in Scalars}

RECURSIVE JsonValues(_)
\* the values nested at most d deep
JsonValues(d) ==
    IF d = 0 THEN Scalars \cup Wrappers
    ELSE LET inner == JsonValues(d - 1)
         IN  Scalars \cup Wrappers
             \cup {Obj(k, v) : k \in {"_id", "a"}, v \in inner}
             \cup {Arr(v) : v \in inner}

\* ----------------------------------------------------------------- steps
\* a request body goes through convertExtendedJson of documents.js
DecodeDocument(x) ==
    /\ codec.pc = "idle"
    /\ codec' = [pc |-> "decoded", by |-> "documents", doc |-> x,
                 decoded |-> convertExtendedJson(x), encoded |-> JNull]
    /\ UNCHANGED <<records, clients, hstate, calls, reqs, sweepClosers, sig, now, test, shell, more>>

\* a pipeline goes through convertExtendedJson of aggregations.js
DecodePipeline(x) ==
    /\ codec.pc = "idle"
    /\ codec' = [pc |-> "decoded", by |-> "aggregations", doc |-> x,
                 decoded |-> convertExtendedJson_aggregations(x), encoded |-> JNull]
    /\ UNCHANGED <<records, clients, hstate, calls, reqs, sweepClosers, sig, now, test, shell, more>>

\* the value is sent back through documentToJson
EncodeDocument ==
    /\ codec.pc = "decoded" /\ codec.decoded # Thrown
    /\ codec' = [codec EXCEPT !.pc = "encoded", !.encoded = documentToJson(codec.decoded)]
    /\ UNCHANGED <<records, clients, hstate, calls, reqs, sweepClosers, sig, now, test, shell, more>>

NextCodec ==
    \/ codec.pc = "idle" /\ \E x \in JsonValues(MaxDepth) : DecodeDocument(x)
    \/ codec.pc = "idle" /\ \E x \in JsonValues(MaxDepth) : DecodePipeline(x)
    \/ EncodeDocument

SpecCodec == Init /\ [][NextCodec]_vars

\* ------------------------------------------------------------- C19, C20
\* the text ObjectId.toString and Date.toISOString produce
CanonicalOid(s) == ObjectIdIsValid(s) /\ \A i \in 1..Len(s) : LowerCase(s[i]) = s[i]

CanonicalDate(s) == DateParse(s) # << >> /\ <<DateParse(s)[1], "T", DateParse(s)[2], "Z">> = s

RECURSIVE Representable(_)
\* plain JSON with {$oid: <24 hex digits>} and {$date: <ISO-8601 text>}
\* wrappers at any depth, the wrapped texts in the form the encoder writes
Representable(x) ==
    IF x.t = "obj"
    THEN \A i \in 1..Len(x.kids) :
            LET k == x.kids[i].k
                v == x.kids[i].v
            IN  IF k = "$oid" THEN v.t = "str" /\ CanonicalOid(v.s)
                ELSE IF k = "$date" THEN v.t = "str" /\ CanonicalDate(v.s)
                ELSE Representable(v)
    ELSE IF x.t = "arr" THEN \A i \in 1..Len(x.kids) : Representable(x.kids[i].v)
    ELSE TRUE

\* C19: for every representable extended-JSON value x, documents with an
\* _id field included, documentToJson(convertExtendedJson(x)) equals x.
C19_RoundTrip ==
    (codec.by = "documents" /\ codec.pc \in {"decoded", "encoded"} /\ Representable(codec.doc))
    => /\ codec.decoded # Thrown
       /\ codec.pc = "encoded" => codec.encoded = codec.doc

\* C20: convertExtendedJson never throws on a JSON value, and an {$oid: s}
\* wrapper whose s is not a valid ObjectId string comes back unchanged.
C20_DecodeTotal ==
    codec.pc \in {"decoded", "encoded"} =>
        /\ codec.decoded # Thrown
        /\ ( /\ codec.doc.t = "obj" /\ HasKey(codec.doc, "$oid")
             /\ Member(codec.doc, "$oid").t = "str"
             /\ ~ObjectIdIsValid(Member(codec.doc, "$oid").s) )
           => codec.decoded = codec.doc

\* ========================================= buildUri / getConnectionUri
\* encodeURIComponent of one character: the reserved ones are escaped
EncodeChar(ch) ==
    CASE ch = "@" -> "%40" [] ch = ":" -> "%3A" [] ch = "/" -> "%2F" [] ch = "%" -> "%25"
      [] OTHER -> ch

encodeURIComponent(str) == [i \in 1..Len(str) |-> EncodeChar(str[i])]

\* a template-literal slot: the text of a string, one part
Part(str) == <<str>>

\* MongoClientManager.buildUri
buildUri(connConfig) ==
    IF connConfig.uri # << >> THEN connConfig.uri
    ELSE LET hasAuth == connConfig.username # << >> /\ connConfig.password # << >>
             credentials == IF hasAuth
                            THEN encodeURIComponent(connConfig.username) \o <<":">>
                                 \o encodeURIComponent(connConfig.password) \o <<"@">>
                            ELSE << >>
             host == IF connConfig.host # "" THEN connConfig.host ELSE "localhost"
             port == IF connConfig.port # "" THEN connConfig.port ELSE "27017"
             authSource == IF connConfig.authDatabase # "" /\ connConfig.username # << >>
                           THEN <<"/?authSource=", connConfig.authDatabase>>
                           ELSE << >>
         IN  <<"mongodb://">> \o credentials \o Part(host) \o <<":">> \o Part(port) \o authSource

\* getConnectionUri of the backup/restore controller
getConnectionUri(connection) ==
    IF connection.uri # << >> THEN connection.uri
    ELSE LET hasAuth == connection.username # << >> /\ connection.password # << >>
             credentials == IF hasAuth
                            THEN encodeURIComponent(connection.username) \o <<":">>
                                 \o encodeURIComponent(connection.password) \o <<"@">>
                            ELSE << >>
             port == IF connection.port # "" THEN connection.port ELSE "27017"
             authSource == IF hasAuth /\ connection.authDatabase # ""
                           THEN <<"/?authSource=", connection.authDatabase>>
                           ELSE << >>
         IN  <<"mongodb://">> \o credentials \o Part(connection.host) \o <<":">> \o Part(port)
             \o authSource

\* the records createConnection and updateConnection can store
ConnectionRecords ==
    [uri : {<< >>, <<"mongodb://", "db1.example.com:27017">>},
     host : {"", "db1.example.com"},
     port : {"", "27018"},
     username : {<< >>, <<"r", "o", "o", "t">>, <<"a", "@", "b">>},
     password : {<< >>, <<"s", "3", "c", "r", "3", "t">>, <<"p", ":", "w", "/", "d">>},
     authDatabase : {"", "admin"}]

\* the same record is handed to the pool manager and to mongodump
BuildUris(c) ==
    /\ built' = [pc |-> "done", conn |-> c, pool |-> buildUri(c), tool |-> getConnectionUri(c)]
    /\ UNCHANGED <<records, clients, hstate, calls, reqs, sweepClosers, sig, now, test, shell,
                   codec, created, http, clean, store, access, rest, auth>>

NextUri == \E c \in ConnectionRecords : BuildUris(c)

SpecUri == Init /\ [][NextUri]_vars

\* ------------------------------------------------------------------ C21
\* the credentials part user:pass@ is in the URI
HasCredentials(u) == \E i \in 1..Len(u) : u[i] = "@"

HasAuthSource(u) == \E i \in 1..Len(u) : u[i] = "/?authSource="

\* C21: for every connection record the URI of the pool manager equals the
\* URI handed to mongodump/mongorestore: the explicit uri when set,
\* otherwise mongodb://[user:pass@]host:port[/?authSource=db] with the
\* credentials percent-encoded, and the authSource suffix appears only
\* together with the credentials part.
C21_SameUri ==
    built.pc = "done" =>
        /\ built.pool = built.tool
        /\ built.conn.uri # << >> => built.pool = built.conn.uri
        /\ built.conn.uri = << >> =>
              /\ built.pool[1] = "mongodb://"
              /\ HasAuthSource(built.pool) => HasCredentials(built.pool)

\* ================================================= csrfLightMiddleware
\* URL texts are sequences of chunks: scheme, host name pieces, port, path
Schemes == {"http://", "https://"}

Ports == {":80", ":3000", ":5173"}

Paths == {"/page"}

DefaultPort(scheme) == IF scheme = "http://" THEN ":80" ELSE ":443"

RECURSIVE Authority(_)
\* the chunks before the path
Authority(text) ==
    IF text = << >> \/ Head(text) \in Paths THEN << >>
    ELSE <<Head(text)>> \o Authority(Tail(text))

InvalidURL == [ok |-> FALSE, host |-> << >>]

\* new URL(text): .host is the host name, and the port unless it is the
\* default port of the scheme
NewURL(text) ==
    IF text = << >> \/ Head(text) \notin Schemes THEN InvalidURL
    ELSE LET authority == Authority(Tail(text))
             n == Len(authority)
             hasPort == n > 0 /\ authority[n] \in Ports
             hostname == IF hasPort THEN SubSeq(authority, 1, n - 1) ELSE authority
         IN  IF hostname = << >> \/ \E i \in 1..Len(hostname) : hostname[i] \in Ports \cup Schemes
             THEN InvalidURL
             ELSE [ok |-> TRUE,
                   host |-> IF hasPort /\ authority[n] # DefaultPort(Head(text))
                            THEN authority ELSE hostname]

\* String.prototype.startsWith('localhost') on a chunked text
StartsWithLocalhost(host) == host # << >> /\ host[1] = "localhost"

SafeMethods == {"GET", "HEAD", "OPTIONS"}

skipPaths == {"/health"}

DefaultOrigin == <<"http://", "localhost", ":5173">>

\* allowedHost of the middleware for a value of CORS_ORIGIN
AllowedHost(env) ==
    LET allowedOrigin == IF env # NoHeader THEN env ELSE DefaultOrigin
        url == NewURL(allowedOrigin)
    IN  IF url.ok THEN url.host ELSE <<"localhost">>

Passed == [status |-> 200, error |-> << >>]

Blocked(error) == [status |-> 403, error |-> error]

\* the check of one header
HeaderVerdict(text, allowedHost, kind) ==
    LET url == NewURL(text)
    IN  IF ~url.ok THEN Blocked(<<"Invalid ", kind, " format">>)
        ELSE IF url.host # allowedHost /\ ~StartsWithLocalhost(url.host)
             THEN Blocked(<<"Invalid ", kind>>)
             ELSE Passed

\* the same with the prefix test replaced by equality of the host name
HeaderVerdict_NoLocalhost(text, allowedHost, kind) ==
    LET url == NewURL(text)
    IN  IF ~url.ok THEN Blocked(<<"Invalid ", kind, " format">>)
        ELSE IF url.host # allowedHost THEN Blocked(<<"Invalid ", kind>>)
             ELSE Passed

csrfLight(req, env) ==
    IF req.method \in SafeMethods THEN Passed
    ELSE IF req.path \in skipPaths THEN Passed
    ELSE IF req.origin # NoHeader THEN HeaderVerdict(req.origin, AllowedHost(env), "origin")
    ELSE IF req.referer # NoHeader THEN HeaderVerdict(req.referer, AllowedHost(env), "referer")
    ELSE Passed

Origins ==
    {NoHeader, <<"http://", "localhost", ":5173">>, <<"http://", "localhost", ":3000">>,
     <<"http://", "localhost">>, <<"https://", "app", ".example.com">>,
     <<"http://", "evil", ".com">>, <<"http://", "localhost", ".evil.com">>,
     <<"http://", "localhost", "-cdn.net", ":80">>, <<"not-a-url">>, <<"http://">>}

Referers ==
    {NoHeader, <<"http://", "localhost", ":5173", "/page">>, <<"http://", "evil", ".com", "/page">>,
     <<"https://", "app", ".example.com", "/page">>, <<"not-a-url">>}

CorsOrigins == {NoHeader, <<"https://", "app", ".example.com">>, <<"app.example.com">>}

Requests ==
    [method : {"GET", "POST", "DELETE"}, path : {"/health", "/api/connections"},
     origin : Origins, referer : Referers]

CsrfLightMiddleware(req, env) ==
    /\ http' = [pc |-> "done", req |-> req, env |-> env,
                status |-> csrfLight(req, env).status, error |-> csrfLight(req, env).error]
    /\ UNCHANGED <<records, clients, hstate, calls, reqs, sweepClosers, sig, now, test, shell,
                   codec, created, built, clean, store, access, rest, auth>>

\* one request is followed through the middleware
NextHttp == http.pc = "idle" /\ \E req \in Requests, env \in CorsOrigins : CsrfLightMiddleware(req, env)

SpecHttp == Init /\ [][NextHttp]_vars

\* ------------------------------------------------------------------ C23
StateChanging == {"POST", "PUT", "DELETE", "PATCH"}

\* the header the middleware looks at: Origin, or Referer when Origin is absent
CheckedHeader == IF http.req.origin # NoHeader THEN http.req.origin ELSE http.req.referer

\* localhost on any port
IsLocalhost(text) ==
    LET hostname == SelectSeq(Authority(Tail(text)), LAMBDA ch : ch \notin Ports)
    IN  hostname = <<"localhost">>

\* C23: a POST/PUT/DELETE/PATCH request with an Origin header (or, when
\* Origin is absent, a Referer header) passes only if the header's host is
\* the configured allowed host or localhost on any port; another host and a
\* malformed URL are answered with 403; a request with neither header or
\* with a safe method passes.
C23_OnlyAllowedHosts ==
    http.pc = "done" =>
        /\ http.req.method \in SafeMethods => http.status = 200
        /\ (http.req.method \in StateChanging /\ CheckedHeader = NoHeader) => http.status = 200
        /\ (http.req.method \in StateChanging /\ CheckedHeader # NoHeader) =>
              IF NewURL(CheckedHeader).ok
                 /\ (NewURL(CheckedHeader).host = AllowedHost(http.env) \/ IsLocalhost(CheckedHeader))
              THEN http.status = 200
              ELSE http.status = 403

\* ===================================== sanitizeString / sanitizeObject
\* texts are sequences of characters, "NUL" is the null byte; values are
\* Val records whose members carry their key as a text
RemoveNullBytes(str) == SelectSeq(str, LAMBDA ch : ch # "NUL")

\* sanitizeString on the text of a string
SanitizeText(str) ==
    LET sanitized == RemoveNullBytes(str)
    IN  IF sanitized # << >> /\ Head(sanitized) = "$" THEN Tail(sanitized) ELSE sanitized

\* sanitizeString(str): anything but a string is returned as it is
sanitizeString(str) == IF str.t # "str" THEN str ELSE Val("str", SanitizeText(str.s), << >>)

SanitizeDepth == 20

\* the own properties after sanitized[key] = value for every entry in turn:
\* a key stands where it was first assigned and holds the value assigned
\* last; "__proto__" goes to the prototype setter and leaves no own property
Assigned(keys, values) ==
    LET n == Len(keys)
        first == SelectSeq([i \in 1..n |-> i],
                           LAMBDA i : keys[i] # <<"__proto__">> /\ \A j \in 1..(i - 1) : keys[j] # keys[i])
        last(key) == CHOOSE i \in 1..n : keys[i] = key /\ \A j \in (i + 1)..n : keys[j] # key
    IN  [p \in 1..Len(first) |-> [k |-> keys[first[p]], v |-> values[last(keys[first[p]])]]]

RECURSIVE sanitizeObject(_, _)
sanitizeObject(obj, depth) ==
    IF depth > SanitizeDepth \/ obj.t \notin {"str", "arr", "obj"} THEN obj
    ELSE IF obj.t = "str" THEN sanitizeString(obj)
    ELSE IF obj.t = "arr"
         THEN [obj EXCEPT !.kids = [i \in 1..Len(obj.kids) |->
                                       [k |-> << >>, v |-> sanitizeObject(obj.kids[i].v, depth + 1)]]]
         ELSE [obj EXCEPT !.kids = Assigned([i \in 1..Len(obj.kids) |-> SanitizeText(obj.kids[i].k)],
                                            [i \in 1..Len(obj.kids) |->
                                                sanitizeObject(obj.kids[i].v, depth + 1)])]

\* ----- inputs
CleanTexts == {<<"g", "t">>, <<"$", "g", "t">>, <<"$", "$", "g", "t">>, <<"a", "NUL", "b">>,
               <<"NUL", "$", "a">>, << >>}

CleanKeys == {<<"a">>, <<"$", "a">>, <<"NUL", "a">>, <<"__proto__">>}

CleanScalars == {JNull, Val("num", <<"1">>, << >>)} \cup {Val("str", t, << >>) : t \in CleanTexts}

Obj1(k, v) == Val("obj", << >>, <<[k |-> k, v |-> v]>>)

Obj2(k1, v1, k2, v2) == Val("obj", << >>, <<[k |-> k1, v |-> v1], [k |-> k2, v |-> v2]>>)

Arr1(v) == Val("arr", << >>, <<[k |-> << >>, v |-> v]>>)

RECURSIVE Nest(_, _)
\* v below n objects {nested: ...}
Nest(v, n) == IF n = 0 THEN v ELSE Obj1(<<"n", "e", "s", "t", "e", "d">>, Nest(v, n - 1))

CleanFlat ==
    {Obj1(k, v) : k \in CleanKeys, v \in CleanScalars}
    \cup {Obj2(p[1], Val("num", <<"1">>, << >>), p[2], v2) :
             p \in {q \in CleanKeys \X CleanKeys : q[1] # q[2]},
             v2 \in {JNull, Val("str", <<"$", "g", "t">>, << >>)}}
    \cup {Arr1(v) : v \in CleanScalars}

CleanValues ==
    CleanScalars \cup CleanFlat
    \cup {Obj1(<<"$", "a">>, v) : v \in CleanFlat}
    \cup {Nest(Obj1(<<"$", "v">>, Val("str", <<"$", "g", "t">>, << >>)), n) :
             n \in (SanitizeDepth - 1)..(SanitizeDepth + 2)}

SanitizeString(v) ==
    /\ clean' = [pc |-> "done", by |-> "sanitizeString", arg |-> v, out |-> sanitizeString(v)]
    /\ UNCHANGED <<records, clients, hstate, calls, reqs, sweepClosers, sig, now, test, shell,
                   codec, created, built, http, store, access, rest, auth>>

SanitizeObject(v) ==
    /\ clean' = [pc |-> "done", by |-> "sanitizeObject", arg |-> v, out |-> sanitizeObject(v, 0)]
    /\ UNCHANGED <<records, clients, hstate, calls, reqs, sweepClosers, sig, now, test, shell,
                   codec, created, built, http, store, access, rest, auth>>

\* one value is followed through the sanitizer
NextClean ==
    /\ clean.pc = "idle"
    /\ \/ \E v \in CleanScalars : SanitizeString(v)
       \/ \E v \in CleanValues : SanitizeObject(v)

SpecClean == Init /\ [][NextClean]_vars

\* ------------------------------------------------------------------ C24
HasNullByte(str) == \E i \in 1..Len(str) : str[i] = "NUL"

StartsWithDollar(str) == str # << >> /\ str[1] = "$"

\* C24: for every string s, sanitizeString(s) contains no null byte and
\* does not start with '$'; a string with neither is returned unchanged; a
\* non-string argument is returned as it is.
C24_StringSanitized ==
    (clean.pc = "done" /\ clean.by = "sanitizeString") =>
        IF clean.arg.t = "str"
        THEN /\ clean.out.t = "str"
             /\ ~HasNullByte(clean.out.s)
             /\ ~StartsWithDollar(clean.out.s)
             /\ (~HasNullByte(clean.arg.s) /\ ~StartsWithDollar(clean.arg.s)) => clean.out = clean.arg
        ELSE clean.out = clean.arg

\* ------------------------------------------------------------------ C25
RECURSIVE Sanitized(_, _, _)
\* out is v with every string value and every key down to the depth limit
\* passed through sanitizeString, member for member, and v itself below it
Sanitized(v, out, depth) ==
    IF depth > SanitizeDepth THEN out = v
    ELSE IF v.t = "str" THEN out = sanitizeString(v)
    ELSE IF v.t \in {"arr", "obj"}
         THEN /\ out.t = v.t
              /\ Len(out.kids) = Len(v.kids)
              /\ \A i \in 1..Len(v.kids) :
                    /\ out.kids[i].k = SanitizeText(v.kids[i].k)
                    /\ Sanitized(v.kids[i].v, out.kids[i].v, depth + 1)
    ELSE out = v

\* C25: sanitizeObject returns, for every nesting depth, a value in which
\* every string value and every object key at nesting depth up to 20 has
\* been passed through sanitizeString, with no key/value pair of the input
\* lost; anything nested deeper than 20 is returned unchanged.
C25_ObjectSanitized ==
    (clean.pc = "done" /\ clean.by = "sanitizeObject") => Sanitized(clean.arg, clean.out, 0)

\* ======================================================= the app store
MaxFetches == 1        \* requests of the store in flight at once

ConnectionIds == {"conn-123", "conn-456"}

DatabaseNames == {"mydb", "logs"}

CollectionNames == {"users"}

\* what the API answers
ServerDatabases == <<"mydb", "logs">>

ServerCollections == <<"users">>

ServerDocuments == <<"doc1">>

ServerIndexes == <<"_id_">>

ServerPage(params) == [page |-> params.page, pageSize |-> params.pageSize, totalCount |-> 60, totalPages |-> 2]

StoreFrame ==
    UNCHANGED <<records, clients, hstate, calls, reqs, sweepClosers, sig, now, test, shell, codec,
                created, built, http, clean, access, rest, auth>>

\* setActiveConnection without the early return for the same connection
SetActiveConnection_Always(connectionId) ==
    /\ store' = [store EXCEPT !.activeConnectionId = connectionId, !.databases = << >>,
                              !.selectedDatabase = "null", !.selectedCollection = "null",
                              !.collections = << >>, !.documents = << >>, !.indexes = << >>,
                              !.collectionStats = "null",
                              !.last = IF store.activeConnectionId = connectionId
                                       THEN "setActiveConnection same"
                                       ELSE "setActiveConnection other"]
    /\ StoreFrame

SetActiveConnection(connectionId) ==
    /\ IF store.activeConnectionId = connectionId
       THEN store' = [store EXCEPT !.last = "setActiveConnection same"]
       ELSE store' = [store EXCEPT !.activeConnectionId = connectionId, !.databases = << >>,
                                   !.selectedDatabase = "null", !.selectedCollection = "null",
                                   !.collections = << >>, !.documents = << >>, !.indexes = << >>,
                                   !.collectionStats = "null", !.last = "setActiveConnection other"]
    /\ StoreFrame

DisconnectFromServer ==
    /\ store' = [store EXCEPT !.activeConnectionId = "null", !.databases = << >>,
                              !.selectedDatabase = "null", !.collections = << >>,
                              !.selectedCollection = "null", !.documents = << >>,
                              !.indexes = << >>, !.collectionStats = "null",
                              !.documentsPagination = FirstPage, !.last = "none"]
    /\ StoreFrame

SelectDatabase(dbName) ==
    /\ IF store.selectedDatabase = dbName
       THEN store' = [store EXCEPT !.last = "selectDatabase same"]
       ELSE store' = [store EXCEPT !.selectedDatabase = dbName, !.selectedCollection = "null",
                                   !.collections = << >>, !.documents = << >>, !.indexes = << >>,
                                   !.collectionStats = "null", !.last = "selectDatabase other"]
    /\ StoreFrame

SelectCollection(collectionName) ==
    /\ store' = [store EXCEPT !.selectedCollection = collectionName, !.documents = << >>,
                              !.indexes = << >>, !.documentsPagination = FirstPage,
                              !.documentsFilter = "{}", !.documentsSort = "{}",
                              !.collectionStats = "null", !.last = "selectCollection"]
    /\ StoreFrame

\* ----- the fetches: the request leaves, and later its answer arrives
CanFetch(kind) == kind \notin store.loading /\ Cardinality(store.loading) < MaxFetches

HasCollection ==
    /\ store.activeConnectionId # "null"
    /\ store.selectedDatabase # "null"
    /\ store.selectedCollection # "null"

FetchDatabases ==
    /\ CanFetch("databases")
    /\ store.activeConnectionId # "null"
    /\ store' = [store EXCEPT !.loading = @ \cup {"databases"}, !.error = "null", !.last = "none"]
    /\ StoreFrame

FetchCollections ==
    /\ CanFetch("collections")
    /\ store.activeConnectionId # "null" /\ store.selectedDatabase # "null"
    /\ store' = [store EXCEPT !.loading = @ \cup {"collections"}, !.error = "null", !.last = "none"]
    /\ StoreFrame

\* options.page and options.pageSize, 0 when the option is not given
FetchDocuments(page, pageSize) ==
    /\ CanFetch("documents")
    /\ HasCollection
    /\ store' = [store EXCEPT !.loading = @ \cup {"documents"}, !.error = "null", !.last = "none",
                              !.fetching = [store.documentsPagination EXCEPT
                                  !.page = IF page # 0 THEN page ELSE @,
                                  !.pageSize = IF pageSize # 0 THEN pageSize ELSE @]]
    /\ StoreFrame

FetchIndexes ==
    /\ CanFetch("indexes")
    /\ HasCollection
    /\ store' = [store EXCEPT !.loading = @ \cup {"indexes"}, !.last = "none"]
    /\ StoreFrame

FetchCollectionStats ==
    /\ CanFetch("stats")
    /\ HasCollection
    /\ store' = [store EXCEPT !.loading = @ \cup {"stats"}, !.last = "none"]
    /\ StoreFrame

\* the answer of the API arrives
Fetched(kind) ==
    /\ kind \in store.loading
    /\ store' = [store EXCEPT
           !.loading = @ \ {kind}, !.last = "none",
           !.databases = IF kind = "databases" THEN ServerDatabases ELSE @,
           !.collections = IF kind = "collections" THEN ServerCollections ELSE @,
           !.documents = IF kind = "documents" THEN ServerDocuments ELSE @,
           !.documentsPagination = IF kind = "documents" THEN ServerPage(store.fetching) ELSE @,
           !.indexes = IF kind = "indexes" THEN ServerIndexes ELSE @,
           !.collectionStats = IF kind = "stats" THEN "stats" ELSE @]
    /\ StoreFrame

\* the request fails
FetchFailed(kind) ==
    /\ kind \in store.loading
    /\ store' = [store EXCEPT
           !.loading = @ \ {kind}, !.last = "none",
           !.error = IF kind = "stats" THEN @ ELSE "Network Error",
           !.collectionStats = IF kind = "stats" THEN "null" ELSE @]
    /\ StoreFrame

FetchKinds == {"databases", "collections", "documents", "indexes", "stats"}

NextStore ==
    \/ \E connectionId \in ConnectionIds : SetActiveConnection(connectionId)
    \/ DisconnectFromServer
    \/ \E dbName \in DatabaseNames : SelectDatabase(dbName)
    \/ \E collectionName \in CollectionNames : SelectCollection(collectionName)
    \/ FetchDatabases
    \/ FetchCollections
    \/ \E page \in {0, 2}, pageSize \in {0, 50} : FetchDocuments(page, pageSize)
    \/ FetchIndexes
    \/ FetchCollectionStats
    \/ \E kind \in FetchKinds : Fetched(kind)
    \/ \E kind \in FetchKinds : FetchFailed(kind)

SpecStore == Init /\ [][NextStore]_vars

\* ------------------------------------------------------------------ C26
\* the store without the note of the last action
StoreState(st) == [st EXCEPT !.last = "none"]

ClearedBelowDatabase(st) ==
    /\ st.selectedCollection = "null" /\ st.collections = << >> /\ st.documents = << >>
    /\ st.indexes = << >> /\ st.collectionStats = "null"

ClearedBelowConnection(st) ==
    st.databases = << >> /\ st.selectedDatabase = "null" /\ ClearedBelowDatabase(st)

\* C26: setActiveConnection(id) with the active id and selectDatabase(name)
\* with the selected name change no store state; with another value they
\* set the selection and clear every selection and list below it;
\* selectCollection always resets documents, indexes and the pagination to
\* page 1 with pageSize 20.
C26_SelectionFrames ==
    [][/\ \A connectionId \in ConnectionIds : SetActiveConnection(connectionId) =>
             IF store.activeConnectionId = connectionId
             THEN StoreState(store') = StoreState(store)
             ELSE /\ store'.activeConnectionId = connectionId
                  /\ ClearedBelowConnection(store')
       /\ \A dbName \in DatabaseNames : SelectDatabase(dbName) =>
             IF store.selectedDatabase = dbName
             THEN StoreState(store') = StoreState(store)
             ELSE /\ store'.selectedDatabase = dbName
                  /\ store'.activeConnectionId = store.activeConnectionId
                  /\ store'.databases = store.databases
                  /\ ClearedBelowDatabase(store')
       /\ \A collectionName \in CollectionNames : SelectCollection(collectionName) =>
             /\ store'.selectedCollection = collectionName
             /\ store'.documents = << >> /\ store'.indexes = << >>
             /\ store'.documentsPagination.page = 1
             /\ store'.documentsPagination.pageSize = 20
      ]_vars

\* the same connection was chosen again with its lists loaded, and they are still there
C26_Witness ==
    /\ store.last = "setActiveConnection same"
    /\ store.databases = ServerDatabases /\ store.collections = ServerCollections
    /\ store.documents = ServerDocuments /\ store.documentsPagination.pageSize = 50

\* ==================================================== createConnection
StoreCalls == 1        \* getClient invocations next to the connection requests

\* the ids randomUUID() hands out: no record has them at start
NewIds == {"c2"}

InitConnections ==
    /\ records = [i \in Ids |-> IF i \in NewIds THEN 0 ELSE InitialVersion]
    /\ clients = << >>
    /\ hstate = [g \in Calls |-> "none"]
    /\ calls = [g \in Calls |-> IdleCall]
    /\ reqs = [r \in Reqs |-> IdleReq]
    /\ sweepClosers = [p \in Ids \X Calls |-> 0]
    /\ sig = [pc |-> "run", closing |-> NoHandle, id |-> NoId, atSignal |-> {}]
    /\ now = 0
    /\ test = TestIdle /\ shell = ShellIdle /\ codec = CodecIdle
    /\ created = {} /\ built = UriIdle /\ http = HttpIdle /\ clean = CleanIdle
    /\ store = StoreInit /\ access = AccessInit /\ rest = RestIdle /\ auth = AuthInit

\* createConnection: load, push and save in one turn of the event loop;
\* 201 when the save succeeded, 500 otherwise
CreateConnection(id, saveOk) ==
    /\ Running
    /\ id \in NewIds \ created
    /\ records' = saveConnections([loadConnections EXCEPT ![id] = InitialVersion], saveOk)
    /\ created' = IF saveOk THEN created \cup {id} ELSE created
    /\ UNCHANGED <<clients, hstate, calls, reqs, sweepClosers, sig, now, test, shell, codec,
                   built, http, clean, store, access, rest, auth>>

NextConnections ==
    \/ \E g \in 1..StoreCalls, id \in Ids : GetClient(g, id)
    \/ \E g \in Calls : ConnectOk(g)
    \/ \E g \in Calls : ConnectFail(g)
    \/ \E r \in Reqs, id \in Ids, saveOk \in BOOLEAN : UpdateConnection(r, id, saveOk)
    \/ \E r \in Reqs, id \in Ids, saveOk \in BOOLEAN : DeleteConnection(r, id, saveOk)
    \/ \E r \in Reqs, closeOk \in BOOLEAN, saveOk \in BOOLEAN : RequestClosed(r, closeOk, saveOk)
    \/ \E id \in Ids, saveOk \in BOOLEAN : CreateConnection(id, saveOk)

SpecConnections == InitConnections /\ [][NextConnections]_vars

\* ------------------------------------------------------------------ C27
\* request r answered with success
Succeeded(r) == reqs[r].pc = "done" /\ reqs[r].res = "ok"

\* no other request was made for the id of request r
OnlyRequestFor(r) == \A q \in Reqs \ {r} : reqs[q].id # reqs[r].id

\* C27: under any interleaving of createConnection, updateConnection and
\* deleteConnection requests on different connection ids, every request that
\* answered with success has its effect in the saved list: a created record
\* is there unless a delete of it succeeded, an updated record carries the
\* edit, a deleted record is gone.
C27_NoLostUpdate ==
    /\ \A id \in created :
          records[id] = 0 => \E r \in Reqs : Succeeded(r) /\ reqs[r].kind = "delete" /\ reqs[r].id = id
    /\ \A r \in Reqs : (Succeeded(r) /\ OnlyRequestFor(r)) =>
          records[reqs[r].id] = IF reqs[r].kind = "update" THEN EditedVersion(r) ELSE 0

\* ================================================ access control (IPs)
\* an address is a sequence of chunks: an optional "::ffff:" and the
\* octets, the dots between them left out; a pattern may hold "*"
Loopback == <<"127", "0", "0", "1">>

\* the normalisation at the head of matchIpPattern and checkIpAccess
NormalizeIp(ip) ==
    IF ip = <<"::1">> \/ ip = <<"::ffff:">> \o Loopback THEN Loopback
    ELSE IF ip # << >> /\ Head(ip) = "::ffff:" THEN Tail(ip)
    ELSE ip

RECURSIVE WildcardMatch(_, _)
\* new RegExp('^' + pattern with \. and .* + '$').test(ip)
WildcardMatch(ip, pattern) ==
    IF pattern = << >> THEN ip = << >>
    ELSE IF Head(pattern) = "*"
         THEN \E n \in 1..Len(ip) : WildcardMatch(SubSeq(ip, n + 1, Len(ip)), Tail(pattern))
         ELSE ip # << >> /\ Head(ip) = Head(pattern) /\ WildcardMatch(Tail(ip), Tail(pattern))

matchIpPattern(ip, pattern) ==
    LET addr == NormalizeIp(ip)
    IN  \/ addr = pattern
        \/ (\E i \in 1..Len(pattern) : pattern[i] = "*") /\ WildcardMatch(addr, pattern)

Some(list, ip) == \E i \in 1..Len(list) : matchIpPattern(ip, list[i])

\* checkIpAccess(ip).allowed under the settings of the file
checkIpAccess(ip, settings) ==
    LET addr == NormalizeIp(ip)
    IN  IF addr = Loopback THEN TRUE
        ELSE IF settings.mode = "disabled" THEN TRUE
        ELSE IF settings.mode = "whitelist" THEN Some(settings.whitelist, addr)
        ELSE IF settings.mode = "blacklist" THEN ~Some(settings.blacklist, addr)
        ELSE TRUE

\* list.map(ip => ip.trim()).filter(Boolean)
TrimEntry(entry) == SelectSeq(entry, LAMBDA ch : ch # " ")

TrimmedEntries(list) ==
    SelectSeq([i \in 1..Len(list) |-> TrimEntry(list[i])], LAMBDA entry : entry # << >>)

\* a mode the body does not have; a list of the body says whether it is given
Undefined == "undefined"

NotGiven == [given |-> FALSE, list |-> << >>]

Given(list) == [given |-> TRUE, list |-> list]

\* saveSettings
saveSettings(old, new, saveOk) == IF saveOk THEN new ELSE old

\* the status updateAccessSettings answers with, and the settings it leaves
UpdateAccess(body, clientIp, settings, saveOk) ==
    IF body.mode # Undefined /\ body.mode \notin {"disabled", "whitelist", "blacklist"}
    THEN [status |-> 400, settings |-> settings]
    ELSE LET checked == body.mode = "whitelist" /\ body.whitelist.given
                        /\ Len(body.whitelist.list) > 0
             normalizedIp == NormalizeIp(clientIp)
             wouldBeAllowed == normalizedIp = Loopback
                               \/ \E i \in 1..Len(body.whitelist.list) :
                                     matchIpPattern(normalizedIp, body.whitelist.list[i])
             new == [mode |-> IF body.mode # Undefined THEN body.mode ELSE settings.mode,
                     whitelist |-> IF body.whitelist.given
                                   THEN TrimmedEntries(body.whitelist.list) ELSE settings.whitelist,
                     blacklist |-> IF body.blacklist.given
                                   THEN TrimmedEntries(body.blacklist.list) ELSE settings.blacklist]
         IN  IF checked /\ ~wouldBeAllowed THEN [status |-> 400, settings |-> settings]
             ELSE IF ~saveOk THEN [status |-> 500, settings |-> saveSettings(settings, new, saveOk)]
             ELSE [status |-> 200, settings |-> saveSettings(settings, new, saveOk)]

\* ----- inputs
Office == <<"10", "0", "0", "5">>

ClientIps == {Loopback, <<"::1">>, Office, <<"::ffff:">> \o Office, <<"192", "168", "1", "7">>}

IpLists == {<< >>, <<Office>>, <<<<"10", "0", "*">>>>, <<<<"192", "168", "1", "7">>, <<" ">>>>,
            <<<<" ", "10", "0", "0", "5", " ">>>>}

AccessBodies ==
    [mode : {Undefined, "disabled", "whitelist", "blacklist", "open"},
     whitelist : {NotGiven} \cup {Given(list) : list \in IpLists},
     blacklist : {NotGiven} \cup {Given(list) : list \in IpLists}]

UpdateAccessSettings(body, clientIp, saveOk) ==
    /\ access' = [pc |-> "done", ip |-> clientIp,
                  settings |-> UpdateAccess(body, clientIp, access.settings, saveOk).settings,
                  status |-> UpdateAccess(body, clientIp, access.settings, saveOk).status]
    /\ UNCHANGED <<records, clients, hstate, calls, reqs, sweepClosers, sig, now, test, shell,
                   codec, created, built, http, clean, store, rest, auth>>

NextAccess ==
    \E body \in AccessBodies, clientIp \in ClientIps, saveOk \in BOOLEAN :
        UpdateAccessSettings(body, clientIp, saveOk)

SpecAccess == Init /\ [][NextAccess]_vars

\* ------------------------------------------------------------------ C28
\* C28: for any sequence of updateAccessSettings requests, the settings
\* stored by a successful request never deny, per checkIpAccess, the IP of
\* the client that made that request.
C28_NoLockout ==
    (access.pc = "done" /\ access.status = 200) => checkIpAccess(access.ip, access.settings)

\* ================================================== REST dropDatabase
systemDbs == {"admin", "local", "config"}

\* the handler: 400 for a system database, otherwise getDatabase and the
\* driver's dropDatabase; an error of either goes to next(error)
DropDatabaseRun(dbName, pool, ok) ==
    IF dbName \in systemDbs THEN [ops |-> << >>, status |-> 400]
    ELSE IF pool # "client" THEN [ops |-> << >>, status |-> 500]
    ELSE [ops |-> <<Op("dropDatabase", dbName, "", << >>)>>, status |-> IF ok THEN 200 ELSE 500]

DropDatabase(dbName, pool, ok) ==
    /\ rest' = [pc |-> "done", dbName |-> dbName, ops |-> DropDatabaseRun(dbName, pool, ok).ops,
                status |-> DropDatabaseRun(dbName, pool, ok).status]
    /\ UNCHANGED <<records, clients, hstate, calls, reqs, sweepClosers, sig, now, test, shell,
                   codec, created, built, http, clean, store, access, auth>>

\* req.params.dbName of the route, req.body.database of the shell
DbNames == systemDbs \cup {"logs"}

\* the shell commands without arguments
PlainCommands == [padded : BOOLEAN, coll : {""}, method : Literals, body : {<< >>}]

\* a REST request, and shell requests as in NextShell
NextDrop ==
    \/ rest.pc = "idle" /\ \E dbName \in DbNames, e \in ShellEnvs : DropDatabase(dbName, e.pool, e.ok)
    \/ ShellReady /\ \E command \in PlainCommands, database \in DbNames \cup {""}, e \in ShellEnvs :
                        ExecuteShell(command, database, e.pool, e.ok)

SpecDrop == Init /\ [][NextDrop]_vars

\* ------------------------------------------------------------------ C29
DropsSystemDb(ops) == \E i \in 1..Len(ops) : ops[i].op = "dropDatabase" /\ ops[i].db \in systemDbs

\* C29: no API operation drops a system database: for admin, local and
\* config both the REST dropDatabase route and the shell command
\* db.dropDatabase() refuse and make no dropDatabase call of the driver.
C29_SystemDbsKept ==
    /\ ~DropsSystemDb(rest.ops)
    /\ (rest.pc = "done" /\ rest.dbName \in systemDbs) => rest.status = 400
    /\ ~DropsSystemDb(shell.ops)

\* ======================================================= config/auth.js
MaxTokens == 2         \* tokens generateToken hands out
MaxClock == 4          \* Date.now(), in units of twelve hours

SessionLifetime == 2   \* 24 * 60 * 60 * 1000 ms, in units of twelve hours

\* crypto.pbkdf2Sync(password, salt, ...): one digest per salt and password
hashPassword(password, salt) == [salt |-> salt, hash |-> <<"pbkdf2", salt, password>>]

verifyPassword(password, salt, hash) == hashPassword(password, salt).hash = hash

\* crypto.randomBytes(16) of a new salt
Salts == {"5f"}

DefaultUsers ==
    <<[id |-> "1", username |-> "admin", salt |-> "5f", hash |-> hashPassword("admin", "5f").hash,
       role |-> "admin"]>>

\* activeSessions as a sequence of [token, session], a Map in insertion order
SessionOf(sessions, token) ==
    IF \E i \in 1..Len(sessions) : sessions[i].token = token
    THEN sessions[CHOOSE i \in 1..Len(sessions) : sessions[i].token = token].session
    ELSE NoSession

DeleteSession(sessions, token) == SelectSeq(sessions, LAMBDA e : e.token # token)

\* loadUsers: the users it returns and what it leaves behind. A missing file
\* clears the sessions and is written anew with the default admin; a file
\* that cannot be read or parsed gives no users.
loadUsers(a, readOk) ==
    IF ~readOk THEN [users |-> << >>, after |-> a]
    ELSE IF ~a.file
         THEN [users |-> DefaultUsers,
               after |-> [a EXCEPT !.file = TRUE, !.users = DefaultUsers, !.sessions = << >>]]
         ELSE [users |-> a.users, after |-> a]

FindUser(users, username) ==
    IF \E i \in 1..Len(users) : users[i].username = username
    THEN CHOOSE i \in 1..Len(users) : users[i].username = username /\ \A j \in 1..(i - 1) : users[j].username # username
    ELSE 0

FindIndex(users, userId) ==
    IF \E i \in 1..Len(users) : users[i].id = userId
    THEN CHOOSE i \in 1..Len(users) : users[i].id = userId
    ELSE 0

NoVerify == [token |-> 0, session |-> NoSession]

AuthFrame ==
    UNCHANGED <<records, clients, hstate, calls, reqs, sweepClosers, sig, now, test, shell, codec,
                created, built, http, clean, store, access, rest>>

\* authenticate(username, password)
Authenticate(username, password, readOk) ==
    /\ auth.issued < MaxTokens
    /\ LET loaded == loadUsers(auth, readOk)
           a == loaded.after
           i == FindUser(loaded.users, username)
           token == a.issued + 1
       IN  IF i = 0 \/ ~verifyPassword(password, loaded.users[i].salt, loaded.users[i].hash)
           THEN auth' = [a EXCEPT !.last = NoVerify]
           ELSE auth' = [a EXCEPT
                    !.issued = token, !.last = NoVerify,
                    !.sessions = Append(@, [token |-> token,
                        session |-> [userId |-> loaded.users[i].id,
                                     username |-> loaded.users[i].username,
                                     role |-> loaded.users[i].role,
                                     expiresAt |-> a.clock + SessionLifetime]])]
    /\ AuthFrame

\* verifyToken that lets an expired or orphaned session stay in the map
VerifyTokenRun_Keeps(a0, token, readOk) ==
    LET loaded == loadUsers(a0, readOk)
        a == loaded.after
        session == SessionOf(a.sessions, token)
    IN  IF session = NoSession THEN [session |-> NoSession, after |-> a]
        ELSE IF a.clock > session.expiresAt THEN [session |-> NoSession, after |-> a]
        ELSE IF FindIndex(loaded.users, session.userId) = 0 THEN [session |-> NoSession, after |-> a]
        ELSE [session |-> session, after |-> a]

\* what verifyToken(token) returns (NoSession for null) and leaves behind
VerifyTokenRun(a0, token, readOk) ==
    LET loaded == loadUsers(a0, readOk)
        a == loaded.after
        session == SessionOf(a.sessions, token)
    IN  IF session = NoSession THEN [session |-> NoSession, after |-> a]
        ELSE IF a.clock > session.expiresAt
             THEN [session |-> NoSession, after |-> [a EXCEPT !.sessions = DeleteSession(@, token)]]
        ELSE IF FindIndex(loaded.users, session.userId) = 0
             THEN [session |-> NoSession, after |-> [a EXCEPT !.sessions = DeleteSession(@, token)]]
        ELSE [session |-> session, after |-> a]

VerifyToken(token, readOk) ==
    /\ token <= auth.issued
    /\ LET run == VerifyTokenRun(auth, token, readOk)
       IN  auth' = [run.after EXCEPT
               !.last = [token |-> token, session |-> run.session],
               !.revoked = IF run.session = NoSession /\ token \in 1..auth.issued
                           THEN @ \cup {token} ELSE @]
    /\ AuthFrame

Logout(token) ==
    /\ token <= auth.issued
    /\ auth' = [auth EXCEPT !.sessions = DeleteSession(@, token), !.revoked = @ \cup {token},
                            !.last = NoVerify]
    /\ AuthFrame

ChangePassword(userId, currentPassword, newPassword, salt, readOk) ==
    /\ LET loaded == loadUsers(auth, readOk)
           a == loaded.after
           i == FindIndex(loaded.users, userId)
       IN  IF i = 0 \/ ~verifyPassword(currentPassword, loaded.users[i].salt, loaded.users[i].hash)
           THEN auth' = [a EXCEPT !.last = NoVerify]
           ELSE auth' = [a EXCEPT
                    !.file = TRUE, !.last = NoVerify,
                    !.users = [loaded.users EXCEPT ![i].salt = salt,
                                                   ![i].hash = hashPassword(newPassword, salt).hash]]
    /\ AuthFrame

ChangeUsername(userId, newUsername, readOk) ==
    /\ LET loaded == loadUsers(auth, readOk)
           a == loaded.after
           i == FindIndex(loaded.users, userId)
       IN  IF i = 0 \/ \E j \in 1..Len(loaded.users) :
                           loaded.users[j].username = newUsername /\ loaded.users[j].id # userId
           THEN auth' = [a EXCEPT !.last = NoVerify]
           ELSE auth' = [a EXCEPT
                    !.file = TRUE, !.last = NoVerify,
                    !.users = [loaded.users EXCEPT ![i].username = newUsername],
                    !.sessions = [k \in 1..Len(a.sessions) |->
                                     IF a.sessions[k].session.userId = userId
                                     THEN [a.sessions[k] EXCEPT !.session.username = newUsername]
                                     ELSE a.sessions[k]]]
    /\ AuthFrame

\* twelve hours pass
ClockTick ==
    /\ auth.clock < MaxClock
    /\ auth' = [auth EXCEPT !.clock = @ + 1, !.last = NoVerify]
    /\ AuthFrame

\* users.json is removed from the data directory
UsersFileRemoved ==
    /\ auth.file
    /\ auth' = [auth EXCEPT !.file = FALSE, !.users = << >>, !.last = NoVerify]
    /\ AuthFrame

\* users.json is rewritten without its users
UsersFileEmptied ==
    /\ auth.file /\ auth.users # << >>
    /\ auth' = [auth EXCEPT !.users = << >>, !.last = NoVerify]
    /\ AuthFrame

Usernames == {"admin", "root"}

Passwords == {"admin", "s3cret"}

UserIds == {"1", "7"}

\* the tokens a request can carry: the ones issued so far, and 0 for any
\* other text (generateToken returns 32 random bytes: a request cannot carry
\* a token before it is issued)
Tokens == 0..MaxTokens

NextAuth ==
    \/ \E username \in Usernames, password \in Passwords, readOk \in BOOLEAN :
          Authenticate(username, password, readOk)
    \/ \E token \in Tokens, readOk \in BOOLEAN : VerifyToken(token, readOk)
    \/ \E token \in Tokens : Logout(token)
    \/ \E userId \in UserIds, currentPassword \in Passwords, newPassword \in Passwords,
          salt \in Salts, readOk \in BOOLEAN :
          ChangePassword(userId, currentPassword, newPassword, salt, readOk)
    \/ \E userId \in UserIds, newUsername \in Usernames, readOk \in BOOLEAN :
          ChangeUsername(userId, newUsername, readOk)
    \/ ClockTick
    \/ UsersFileRemoved
    \/ UsersFileEmptied

SpecAuth == Init /\ [][NextAuth]_vars

\* ------------------------------------------------------------------ C30
\* the last call was verifyToken and it returned a session
Accepted == auth.last.session # NoSession

\* C30: verifyToken(t) returns a session only if t was issued by a
\* successful authenticate, was not passed to logout, is not past its
\* 24-hour expiry and its user id still exists in the users store; once
\* verifyToken(t) returned null for an issued token or logout(t) was called,
\* t is never accepted again.
C30_SessionValid ==
    Accepted =>
        /\ auth.last.token \in 1..auth.issued
        /\ auth.last.token \notin auth.revoked
        /\ auth.clock <= auth.last.session.expiresAt
        /\ auth.file /\ FindIndex(auth.users, auth.last.session.userId) # 0

\* a token is accepted at the last moment of its life, after another one was logged out
C30_Witness ==
    /\ Accepted
    /\ auth.clock = auth.last.session.expiresAt
    /\ auth.revoked # {}
    /\ auth.last.session.username = "root"

====
